---- MODULE Spec2Model ----
(***************************************************************************)
(* The virtual-memory subsystem of the OS/161 kernel in this repository:   *)
(* region list, two-level page table, reference-counted page-table entries *)
(* (PTEs) with copy-on-write, the page-fault handler and the TLB.          *)
(*                                                                         *)
(* The tree holds the page-table and PTE functions twice: the copies       *)
(* embedded in kern/vm/addrspace.c and kern/vm/vm.c, and the stand-alone   *)
(* kern/vm/page_table.c that kern/include/addrspace.h declares.  The       *)
(* variable build says which set the kernel is built with; as_copy,        *)
(* as_destroy and vm_fault are the same code in both and call the set of   *)
(* the build.                                                              *)
(*                                                                         *)
(* Addresses.  Region bounds are page-aligned (addrspace.c:556,575), so    *)
(* vbase and vtop are kept as page numbers (byte address \div PAGE_SIZE);  *)
(* byte addresses appear where the code computes with them.                *)
(***************************************************************************)
EXTENDS Integers, Sequences, FiniteSets, TLC

\* ---------------------------------------------------------------- bounds
MaxAS == 2        \* address spaces that can be live when fork is called
MaxLoaded == 1    \* as_create (runprogram) is called while fewer are live
MaxPTE == 2       \* PTE structures the kernel heap can hold
MaxFrame == 2     \* physical frames the frame allocator can hand out
MaxRegions == 2   \* regions defined in one address space
MaxVal == 1       \* distinct non-zero byte patterns a user program writes
MaxHeapPages == 2  \* pages sys_sbrk is asked to grow the heap to
MaxThreads == 2   \* kernel threads inside the VM system at once
MaxPageTables == 4 \* struct PageTable blocks on the kernel heap; as_copy is
                  \* not called when the two it allocates would exceed it

\* ------------------------------------------------------ program constants
OFFSET_BITS == 12
PAGE_SIZE == 2 ^ OFFSET_BITS
L2_BITS == 9
PF_R == 4
PF_W == 2
PF_X == 1
EINVAL == "EINVAL"
EFAULT == "EFAULT"
ENOMEM == "ENOMEM"
ENOSYS == "ENOSYS"
VM_FAULT_READ == "VM_FAULT_READ"
VM_FAULT_WRITE == "VM_FAULT_WRITE"
VM_FAULT_READONLY == "VM_FAULT_READONLY"
OK == "0"
YANG_VM_STACKPAGES == 18
\* USERSTACK (0x80000000) and the size of the 32-bit address space, in pages.
USERSTACK_PAGE == 2 ^ (31 - OFFSET_BITS)
AddressPages == 2 ^ (32 - OFFSET_BITS)
UNNAMED_REGION == 0
HEAP_REGION == 1
STACK_REGION == 2

NULL == 0
\* One address space more than fork is called with: the one it creates.
ASIds == 1..(MaxAS + 1)
Threads == 1..MaxThreads
PTEIds == 1..MaxPTE
Frames == 1..MaxFrame
Vals == 0..MaxVal

\* The first page of the modelled user range (vaddr 0x400000).
BasePage == 1024
\* Pages a user program touches, and the byte addresses it faults on.
Pages == BasePage..(BasePage + 1)
FaultAddrs == {p * PAGE_SIZE + 8 : p \in Pages}
\* as_define_region's inputs <<vaddr, memsize, readable, writeable,
\* executable>> (the flag or 0, as load_elf passes them): a one-page data
\* segment and a one-page text segment.
DefRegions == {<<BasePage * PAGE_SIZE, PAGE_SIZE, PF_R, PF_W, 0>>,
               <<(BasePage + 1) * PAGE_SIZE, PAGE_SIZE, PF_R, 0, PF_X>>}
\* The segments of a program whose text is loaded through force_readwrite,
\* with a segment that may be written and not read and a segment that does
\* not start on a page.
LoadRegions == DefRegions \cup {<<(BasePage + 1) * PAGE_SIZE, PAGE_SIZE, 0, PF_W, 0>>,
                                <<BasePage * PAGE_SIZE + 16, PAGE_SIZE, PF_R, PF_W, 0>>}
\* sys_sbrk's amounts (ssize_t, bytes): 0, a byte and a page and a bit each
\* way, and the ends of the signed 32-bit range.
Amounts == {0, 1, -1, 5000, -5000, 2147483647, -2147483647}
\* sys_mmap's <<length, offset>>: no length, a page at offset 0, a page at
\* an offset inside a page.
MmapArgs == {<<0, 0>>, <<PAGE_SIZE, 0>>, <<PAGE_SIZE, 1>>}
\* The longest region list: the defined regions, the heap and the stack.
MaxList == MaxRegions + 2
\* What an uninitialised region.type may hold (any int; two values here).
GarbageTypes == {UNNAMED_REGION, STACK_REGION}

Builds == {"embedded", "page_table"}

L1_INDEX(page) == page \div (2 ^ L2_BITS)
L2_INDEX(page) == page % (2 ^ L2_BITS)
L1Slots == {L1_INDEX(p) : p \in Pages}
L2Slots == {L2_INDEX(p) : p \in Pages}
PageOf(vaddr) == vaddr \div PAGE_SIZE

MAX(a, b) == IF a > b THEN a ELSE b
MIN(a, b) == IF a < b THEN a ELSE b
Lowest(S) == CHOOSE x \in S : \A y \in S : x <= y

VARIABLES
    build,      \* which set of page-table functions the kernel is built with
    as,         \* ASIds -> address space (struct addrspace), or NoAS
    pte,        \* PTEIds -> PTE structure (kernel heap block)
    mem,        \* Frames -> [used, data]: the frame allocator and page contents
    tlb,        \* Pages -> TLB entry of the CPU, or NoEntry
    curas,      \* proc_getas(): address space of the running process, or NULL
    panicked,   \* the kernel hit a failed KASSERT or a NULL dereference
    last,       \* the last call: operation, arguments, return value
    thr,        \* Threads -> the call a kernel thread is inside, step by step
    page_tables \* how many struct PageTable (each with its lock) the kernel
                \* heap holds: kmalloc'ed by page_table_init, not yet kfree'd

vars == <<build, as, pte, mem, tlb, curas, panicked, last, thr, page_tables>>

NoAS == [live |-> FALSE]
NoEntry == [present |-> FALSE]
NoTable == [present |-> FALSE]
\* A kernel-heap block that holds no PTE (never allocated, or freed by
\* pte_destroy, which zeroes frame, ref_count and lock before kfree).
FreePTE == [live |-> FALSE, fn |-> 0, valid |-> FALSE, dirty |-> FALSE,
            ref_count |-> 0, shared |-> FALSE, lock |-> FALSE]
FreeFrame == [used |-> FALSE, data |-> 0]
\* A thread outside the VM system.  Inside a call it records the call (op),
\* where it is (pc), its address space and page, the PTE it looked up (p),
\* the PTE or address space it made (n, new), the slots a loop walks (order,
\* i), the locks it holds, the page contents and reference count it found
\* on entry (orig, rc0), what the call returned (ret), the lock it is about
\* to take and where it goes on with it (want, next), and where the PTE
\* function it is in returns to (retpc).  Of the state on entry it keeps
\* the PTE of the page (p0), the number of page-table slots that referenced
\* it (refs0), the PTEs its address space referenced (own) and whether a
\* free PTE block and a free frame were left (room).  paddr is the frame
\* word vm_fault read from the PTE it is about to install.
IdleThread == [op |-> "none", pc |-> "idle", a |-> 0, page |-> 0, p |-> 0, n |-> 0,
               new |-> 0, order |-> <<>>, i |-> 0, held |-> {}, orig |-> 0,
               rc0 |-> 0, ret |-> "none",
               want |-> <<"none", 0>>, next |-> "idle", retpc |-> "idle",
               p0 |-> 0, refs0 |-> 0, own |-> {}, room |-> FALSE,
               paddr |-> [fn |-> 0, valid |-> FALSE, dirty |-> FALSE]]

\* The kernel heap as the PTE functions see it.
Heap(p, m) == [pte |-> p, mem |-> m, panic |-> FALSE]
Panic(K) == [K EXCEPT !.panic = TRUE]

\* ------------------------------------------------------------------ PTEs

FreePTEIds(K) == {i \in PTEIds : ~K.pte[i].live}
FreeFrames(K) == {f \in Frames : ~K.mem[f].used}

\* A new_pte that hands the frame out as alloc_kpages left it.
new_pte_nozero(K, garbage) ==
    IF FreePTEIds(K) = {} \/ FreeFrames(K) = {} THEN [k |-> K, p |-> NULL]
    ELSE LET id == Lowest(FreePTEIds(K))
             f == Lowest(FreeFrames(K))
         IN [k |-> [K EXCEPT !.pte[id] = [live |-> TRUE, fn |-> f, valid |-> FALSE,
                                          dirty |-> FALSE, ref_count |-> 1,
                                          shared |-> garbage[id], lock |-> TRUE],
                             !.mem[f].used = TRUE],
             p |-> id]

\* new_pte: kmalloc the structure, alloc_kpages(1) and zero the frame,
\* ref_count = 1.  frame holds the bare physical address (neither VALID nor
\* DIRTY); shared is never written, so it holds what the heap block held
\* (garbage[id]).  A failed alloc_kpages returns NULL without kfree(pte).
\* Returns [k: heap after, p: the PTE or NULL].
new_pte(K, garbage) ==
    IF FreePTEIds(K) = {} THEN [k |-> K, p |-> NULL]
    ELSE LET id == Lowest(FreePTEIds(K)) IN
         IF FreeFrames(K) = {}
         THEN [k |-> [K EXCEPT !.pte[id] = [FreePTE EXCEPT !.live = TRUE,
                                                           !.shared = garbage[id]]],
               p |-> NULL]
         ELSE LET f == Lowest(FreeFrames(K)) IN
              [k |-> [K EXCEPT !.pte[id] = [live |-> TRUE, fn |-> f, valid |-> FALSE,
                                            dirty |-> FALSE, ref_count |-> 1,
                                            shared |-> garbage[id], lock |-> TRUE],
                               !.mem[f] = [used |-> TRUE, data |-> 0]],
               p |-> id]

\* free_kpages(PADDR_TO_KVADDR(frame & PAGE_FRAME)); zero says whether the
\* page is bzero'ed first.
FreeFrameOf(m, fn, zero) ==
    IF fn \in Frames
    THEN [m EXCEPT ![fn] = [used |-> FALSE, data |-> IF zero THEN 0 ELSE m[fn].data]]
    ELSE m

\* pte_destroy of kern/vm/page_table.c: zero and free the frame, clear the
\* structure, kfree it.  (OPT_COW & !OPT_MMAP is 0: no ref_count assertion.)
pte_destroy_pt(K, p) ==
    IF p = NULL \/ ~K.pte[p].lock THEN Panic(K)
    ELSE [K EXCEPT !.mem = FreeFrameOf(K.mem, K.pte[p].fn, TRUE),
                   !.pte[p] = FreePTE]

\* pte_destroy of kern/vm/addrspace.c: asserts ref_count == 1, frees the
\* frame without zeroing it.
pte_destroy_as(K, p) ==
    IF p = NULL \/ ~K.pte[p].lock \/ K.pte[p].ref_count # 1 THEN Panic(K)
    ELSE [K EXCEPT !.mem = FreeFrameOf(K.mem, K.pte[p].fn, FALSE),
                   !.pte[p] = FreePTE]

\* pte_dec_ref of kern/vm/page_table.c.
pte_dec_ref_pt(K, p) ==
    IF p = NULL \/ ~K.pte[p].lock \/ ~(K.pte[p].ref_count > 0) THEN Panic(K)
    ELSE IF K.pte[p].ref_count > 1
         THEN [K EXCEPT !.pte[p].ref_count = @ - 1]
         ELSE pte_destroy_pt(K, p)

\* pte_dec_ref of kern/vm/addrspace.c: decrements when ref_count > 1, then
\* tests ref_count == 1 on the decremented value.
pte_dec_ref_as(K, p) ==
    IF p = NULL \/ ~K.pte[p].lock \/ ~(K.pte[p].ref_count > 0) THEN Panic(K)
    ELSE LET K1 == IF K.pte[p].ref_count > 1
                   THEN [K EXCEPT !.pte[p].ref_count = @ - 1]
                   ELSE K
         IN IF K1.pte[p].ref_count = 1 THEN pte_destroy_as(K1, p) ELSE K1

pte_dec_ref(b, K, p) ==
    IF b = "embedded" THEN pte_dec_ref_as(K, p) ELSE pte_dec_ref_pt(K, p)

\* pte_inc_ref (the same in both files): one more reference, and the page
\* is made unwriteable so that the next write faults.
pte_inc_ref(K, p) ==
    IF p = NULL \/ ~K.pte[p].lock \/ ~(K.pte[p].ref_count > 0) THEN Panic(K)
    ELSE [K EXCEPT !.pte[p].ref_count = @ + 1, !.pte[p].dirty = FALSE]

\* The copy both pte_copy_on_write and pte_copy make: the page contents
\* (memmove of PAGE_SIZE bytes) and the bits of frame below PAGE_FRAME.
\* A source frame outside the modelled memory reads as zeroes.
CopyInto(K, new, old) ==
    LET src == K.pte[old].fn IN
    [K EXCEPT !.mem[K.pte[new].fn].data = IF src \in Frames THEN K.mem[src].data ELSE 0,
              !.pte[new].valid = K.pte[old].valid,
              !.pte[new].dirty = K.pte[old].dirty]

\* A pte_copy_on_write whose sole-owner branch returns the PTE without
\* marking it writable.
pte_copy_on_write_nodirty(K, p, garbage) ==
    IF p = NULL \/ ~K.pte[p].lock THEN [k |-> Panic(K), p |-> NULL]
    ELSE IF K.pte[p].ref_count = 1 THEN [k |-> K, p |-> p]
    ELSE [k |-> K, p |-> NULL]

\* pte_copy_on_write of kern/vm/page_table.c.
pte_copy_on_write_pt(K, p, garbage) ==
    IF p = NULL \/ ~K.pte[p].lock THEN [k |-> Panic(K), p |-> NULL]
    ELSE IF K.pte[p].ref_count = 1
    THEN [k |-> [K EXCEPT !.pte[p].dirty = TRUE], p |-> p]
    ELSE LET n == new_pte(K, garbage) IN
         IF n.p = NULL THEN [k |-> n.k, p |-> NULL]
         ELSE LET K1 == CopyInto(n.k, n.p, p)
                  K2 == [K1 EXCEPT !.pte[n.p].dirty = TRUE,
                                   !.pte[p].ref_count = @ - 1]
              IN [k |-> IF K2.pte[p].ref_count > 0 THEN K2 ELSE Panic(K), p |-> n.p]

\* pte_copy_on_write of kern/vm/vm.c (static): no lock, no assertion, and
\* the old reference is dropped with pte_dec_ref.
pte_copy_on_write_vm(b, K, p, garbage) ==
    IF p = NULL THEN [k |-> K, p |-> NULL]
    ELSE IF K.pte[p].ref_count = 1
    THEN [k |-> [K EXCEPT !.pte[p].dirty = TRUE], p |-> p]
    ELSE LET n == new_pte(K, garbage) IN
         IF n.p = NULL THEN [k |-> n.k, p |-> NULL]
         ELSE LET K1 == CopyInto(n.k, n.p, p)
                  K2 == [K1 EXCEPT !.pte[n.p].dirty = TRUE]
              IN [k |-> pte_dec_ref(b, K2, p), p |-> n.p]

pte_copy_on_write(b, K, p, garbage) ==
    IF b = "embedded" THEN pte_copy_on_write_vm(b, K, p, garbage)
    ELSE pte_copy_on_write_pt(K, p, garbage)

\* pte_copy of kern/vm/page_table.c: an independent copy of the page; the
\* source keeps its reference count.
pte_copy(K, p, garbage) ==
    IF p = NULL \/ ~K.pte[p].lock THEN [k |-> Panic(K), p |-> NULL]
    ELSE LET n == new_pte(K, garbage) IN
         IF n.p = NULL THEN [k |-> n.k, p |-> NULL]
         ELSE [k |-> CopyInto(n.k, n.p, p), p |-> n.p]

\* ------------------------------------------------------------ page table

\* page_table_init: every first-level slot empty.
page_table_init == [l1 \in L1Slots |-> NoTable]

\* l2_table_init of page_table.c; the embedded kmalloc + loop builds the
\* same table (struct l2_page_table of addrspace.h has no count to set).
l2_table_init == [present |-> TRUE, entries |-> [l2 \in L2Slots |-> NULL], count |-> 0]

page_table_lookup(pt, page) ==
    IF ~pt[L1_INDEX(page)].present THEN NULL
    ELSE pt[L1_INDEX(page)].entries[L2_INDEX(page)]

\* page_table_add_entry of addrspace.c and vm.c: the slot is overwritten.
page_table_add_entry_as(pt, page, p) ==
    LET l1 == L1_INDEX(page)
        t == IF pt[l1].present THEN pt[l1] ELSE l2_table_init
    IN [pt EXCEPT ![l1] = [t EXCEPT !.entries[L2_INDEX(page)] = p]]

\* page_table_add_entry of page_table.c: count goes up when the slot was empty.
page_table_add_entry_pt(pt, page, p) ==
    LET l1 == L1_INDEX(page)
        l2 == L2_INDEX(page)
        t == IF pt[l1].present THEN pt[l1] ELSE l2_table_init
    IN [pt EXCEPT ![l1] = [t EXCEPT !.entries[l2] = p,
                                    !.count = IF t.entries[l2] = NULL THEN @ + 1 ELSE @]]

page_table_add_entry(b, pt, page, p) ==
    IF b = "embedded" THEN page_table_add_entry_as(pt, page, p)
    ELSE page_table_add_entry_pt(pt, page, p)

\* page_table_remove_entry of addrspace.c: the slot is cleared and its entry
\* returned; the second-level table stays.  Returns [pt, entry].
page_table_remove_entry_as(pt, page) ==
    LET l1 == L1_INDEX(page)
        l2 == L2_INDEX(page)
    IN IF ~pt[l1].present THEN [pt |-> pt, entry |-> NULL]
       ELSE [pt |-> [pt EXCEPT ![l1].entries[l2] = NULL], entry |-> pt[l1].entries[l2]]

\* page_table_remove_entry of page_table.c: the slot is cleared, count goes
\* down whatever the slot held, and the table is freed when count is 0.
page_table_remove_entry_pt(pt, page) ==
    LET l1 == L1_INDEX(page)
        l2 == L2_INDEX(page)
    IN IF ~pt[l1].present THEN [pt |-> pt, entry |-> NULL]
       ELSE [pt |-> IF pt[l1].count - 1 = 0 THEN [pt EXCEPT ![l1] = NoTable]
                    ELSE [pt EXCEPT ![l1].entries[l2] = NULL, ![l1].count = @ - 1],
             entry |-> pt[l1].entries[l2]]

page_table_remove_entry(b, pt, page) ==
    IF b = "embedded" THEN page_table_remove_entry_as(pt, page)
    ELSE page_table_remove_entry_pt(pt, page)

\* The occupied slots of a page table, as pages, in the order the loops over
\* tables[i]->entries[j] visit them.
RECURSIVE SortedSeq(_)
SortedSeq(S) == IF S = {} THEN <<>> ELSE <<Lowest(S)>> \o SortedSeq(S \ {Lowest(S)})
Occupied(pt) == {pg \in Pages : page_table_lookup(pt, pg) # NULL}

\* The entry loop of page_table_copy in addrspace.c: every PTE is shared.
\* Returns [k, pt]: the heap and the new table after slots i.. of order.
RECURSIVE CopyEntries_as(_, _, _, _, _)
CopyEntries_as(K, old, new, order, i) ==
    IF i > Len(order) \/ K.panic THEN [k |-> K, pt |-> new]
    ELSE LET p == page_table_lookup(old, order[i]) IN
         CopyEntries_as(pte_inc_ref(K, p), old,
                        page_table_add_entry_as(new, order[i], p), order, i + 1)

page_table_copy_as(K, old) ==
    CopyEntries_as(K, old, [l1 \in L1Slots |-> IF old[l1].present THEN l2_table_init ELSE NoTable],
                   SortedSeq(Occupied(old)), 1)

\* The entry loop of l2_table_copy in page_table.c: a shared PTE gains a
\* reference, any other is copied.  failed: pte_copy returned NULL.
RECURSIVE CopyEntries_pt(_, _, _, _, _, _)
CopyEntries_pt(K, old, new, order, i, garbage) ==
    IF i > Len(order) \/ K.panic THEN [k |-> K, pt |-> new, failed |-> FALSE]
    ELSE LET p == page_table_lookup(old, order[i]) IN
         IF K.pte[p].shared
         THEN CopyEntries_pt(pte_inc_ref(K, p), old,
                             page_table_add_entry_pt(new, order[i], p), order, i + 1, garbage)
         ELSE LET c == pte_copy(K, p, garbage) IN
              IF c.p = NULL THEN [k |-> c.k, pt |-> new, failed |-> ~c.k.panic]
              ELSE CopyEntries_pt(c.k, old, page_table_add_entry_pt(new, order[i], c.p),
                                  order, i + 1, garbage)

page_table_copy_pt(K, old, garbage) ==
    CopyEntries_pt(K, old, [l1 \in L1Slots |-> IF old[l1].present THEN l2_table_init ELSE NoTable],
                   SortedSeq(Occupied(old)), 1, garbage)

\* page_table_destroy of addrspace.c: pte_dec_ref on every entry.
RECURSIVE DestroyEntries_as(_, _, _, _)
DestroyEntries_as(K, pt, order, i) ==
    IF i > Len(order) \/ K.panic THEN K
    ELSE DestroyEntries_as(pte_dec_ref_as(K, page_table_lookup(pt, order[i])), pt, order, i + 1)

page_table_destroy_as(K, pt) == DestroyEntries_as(K, pt, SortedSeq(Occupied(pt)), 1)

\* l2_table_destroy of page_table.c, for the entries of every table: the
\* reference is dropped in line, the PTE destroyed when it was the last.
l2_entry_destroy(K, p) ==
    IF ~K.pte[p].lock \/ ~(K.pte[p].ref_count > 0) THEN Panic(K)
    ELSE IF K.pte[p].ref_count > 1 THEN [K EXCEPT !.pte[p].ref_count = @ - 1]
    ELSE pte_destroy_pt(K, p)

RECURSIVE DestroyEntries_pt(_, _, _, _)
DestroyEntries_pt(K, pt, order, i) ==
    IF i > Len(order) \/ K.panic THEN K
    ELSE DestroyEntries_pt(l2_entry_destroy(K, page_table_lookup(pt, order[i])), pt, order, i + 1)

\* page_table_destroy of page_table.c; l2_table_destroy asserts that the
\* table's count has come down to 0 with its last entry.
page_table_destroy_pt(K, pt) ==
    LET K1 == DestroyEntries_pt(K, pt, SortedSeq(Occupied(pt)), 1) IN
    IF \E l1 \in L1Slots : pt[l1].present
          /\ pt[l1].count # Cardinality({l2 \in L2Slots : pt[l1].entries[l2] # NULL})
    THEN Panic(K1) ELSE K1

\* --------------------------------------------------------------- regions

Overlap(r, vbase, vtop) == MAX(r.vbase, vbase) < MIN(r.vtop, vtop)

\* find_region of vm.c: the first region holding the address, or NULL (0).
find_region(regions, page) ==
    LET hit == {i \in 1..Len(regions) : regions[i].vbase <= page /\ page < regions[i].vtop}
    IN IF hit = {} THEN NULL ELSE Lowest(hit)

\* The region as_define_region builds (type is never written: garbage).
NewRegion(vaddr, memsize, readable, writeable, executable, gtype) ==
    LET size == memsize + (vaddr % PAGE_SIZE)
        npages == (size + PAGE_SIZE - 1) \div PAGE_SIZE
    IN [vbase |-> vaddr \div PAGE_SIZE, npages |-> npages,
        vtop |-> (vaddr \div PAGE_SIZE) + npages,
        readable |-> readable = PF_R, writeable |-> writeable = PF_W,
        executable |-> executable = PF_X, type |-> gtype]

\* The overlap loop of as_define_region: while (current->next != NULL), so
\* every region but the last of the list is compared.
Compared(regions) == 1..(Len(regions) - 1)

\* regions_copy: the six copied fields; type is not among them.
regions_copy(regions, gtypes) ==
    [i \in 1..Len(regions) |-> [regions[i] EXCEPT !.type = gtypes[i]]]

\* ------------------------------------------------------------------- TLB

\* A load_tlb that does not look at force_rw.
load_tlb_noforce(t, page, word, force_rw, victim) ==
    LET e == [present |-> TRUE, fn |-> word.fn, dirty |-> word.dirty] IN
    IF t[page].present THEN [t EXCEPT ![page] = e]
    ELSE [q \in Pages |-> IF q = page THEN e ELSE IF q = victim THEN NoEntry ELSE t[q]]

\* load_tlb: the entry maps the page to the frame, writable when the frame
\* word has DIRTY or force_rw is set.  tlb_probe finds the page's own entry
\* and it is overwritten; otherwise tlb_random writes a slot of its choice,
\* which may hold another page's entry (victim).
load_tlb(t, page, word, force_rw, victim) ==
    LET e == [present |-> TRUE, fn |-> word.fn, dirty |-> word.dirty \/ force_rw] IN
    IF t[page].present THEN [t EXCEPT ![page] = e]
    ELSE [q \in Pages |-> IF q = page THEN e ELSE IF q = victim THEN NoEntry ELSE t[q]]

\* flush_tlb: every slot invalid.
flush_tlb == [q \in Pages |-> NoEntry]

\* ------------------------------------------------------------ operations

\* The record of a call: the operation, what it returned, and the arguments
\* that tell calls apart (vm_fault: the fault type, the page, and the PTE
\* page_table_lookup found).
Call(op, args, ret) == [op |-> op, args |-> args, ret |-> ret]

FreeASIds == {a \in ASIds : ~as[a].live}
LiveAS == {a \in ASIds : as[a].live}
\* What the heap blocks handed to new_pte may hold where shared lies.  Only
\* l2_table_copy of page_table.c reads the field; one value is drawn when
\* the kernel is built without it.
Garbage == {[i \in PTEIds |-> g] : g \in IF build = "embedded" THEN {FALSE} ELSE BOOLEAN}

\* A failed KASSERT or a NULL dereference: the kernel stops.
\* Nothing runs after it, so the rest of the state is dropped.
KernelPanic(op, args) ==
    /\ panicked' = TRUE
    /\ last' = Call(op, args, "panic")
    /\ as' = [a \in ASIds |-> NoAS]
    /\ pte' = [i \in PTEIds |-> FreePTE]
    /\ mem' = [f \in Frames |-> FreeFrame]
    /\ tlb' = flush_tlb
    /\ curas' = NULL
    /\ thr' = [t \in Threads |-> IdleThread]
    /\ page_tables' = 0
    /\ UNCHANGED build

as_create ==
    /\ ~panicked
    /\ FreeASIds # {}
    /\ Cardinality(LiveAS) < MaxLoaded
    /\ LET a == Lowest(FreeASIds) IN
       /\ as' = [as EXCEPT ![a] = [live |-> TRUE, regions |-> <<>>,
                                   page_table |-> page_table_init,
                                   force_readwrite |-> FALSE,
                                   heap |-> NULL, stack |-> NULL]]
       /\ last' = Call("as_create", <<>>, OK)
    /\ page_tables' = page_tables + 1
    /\ UNCHANGED <<thr, build, pte, mem, tlb, curas, panicked>>

as_define_region(a, vaddr, memsize, readable, writeable, executable, gtype) ==
    /\ ~panicked
    /\ as[a].live
    /\ LET r == NewRegion(vaddr, memsize, readable, writeable, executable, gtype)
           regions == as[a].regions
       IN /\ Len(regions) < MaxRegions
             \/ \E i \in Compared(regions) : Overlap(regions[i], r.vbase, r.vtop)
          /\ IF \E i \in Compared(regions) : Overlap(regions[i], r.vbase, r.vtop)
             THEN /\ last' = Call("as_define_region",
                               <<a, r.vbase, r.vtop, vaddr, memsize,
                                 readable, writeable, executable>>, EINVAL)
                  /\ as' = as
             ELSE /\ last' = Call("as_define_region",
                               <<a, r.vbase, r.vtop, vaddr, memsize,
                                 readable, writeable, executable>>, OK)
                  /\ as' = [as EXCEPT ![a].regions = Append(regions, r)]
    /\ UNCHANGED <<page_tables, thr, build, pte, mem, tlb, curas, panicked>>

\* KASSERT(as->regions != NULL), then the flag.
as_prepare_load(a) ==
    /\ ~panicked
    /\ as[a].live
    /\ IF as[a].regions = <<>>
       THEN KernelPanic("as_prepare_load", <<>>)
       ELSE /\ as' = [as EXCEPT ![a].force_readwrite = TRUE]
            /\ last' = Call("as_prepare_load", <<a>>, OK)
            /\ UNCHANGED <<page_tables, thr, build, pte, mem, tlb, curas, panicked>>

as_complete_load(a) ==
    /\ ~panicked
    /\ as[a].live
    /\ IF as[a].regions = <<>>
       THEN KernelPanic("as_complete_load", <<>>)
       ELSE /\ as' = [as EXCEPT ![a].force_readwrite = FALSE]
            /\ last' = Call("as_complete_load", <<a>>, OK)
            /\ UNCHANGED <<page_tables, thr, build, pte, mem, tlb, curas, panicked>>

\* An as_activate that leaves the TLB as it is.
as_activate_noflush(a) ==
    /\ ~panicked
    /\ a # NULL => as[a].live
    /\ curas' = a
    /\ tlb' = tlb
    /\ last' = Call("as_activate", <<>>, OK)
    /\ UNCHANGED <<page_tables, thr, build, as, pte, mem, panicked>>

\* The scheduler runs the process that owns a, or a thread with no address
\* space (a = NULL): as_activate flushes the TLB when proc_getas() is not
\* NULL and returns at once when it is.
as_activate(a) ==
    /\ ~panicked
    /\ a # NULL => as[a].live
    /\ curas' = a
    /\ tlb' = IF a = NULL THEN tlb ELSE flush_tlb
    /\ last' = Call("as_activate", <<>>, OK)
    /\ UNCHANGED <<page_tables, thr, build, as, pte, mem, panicked>>

\* The running process gives up its address space (exit, exec):
\* proc_setas(NULL) and as_deactivate, which flushes the TLB.
as_deactivate ==
    /\ ~panicked
    /\ curas # NULL
    /\ curas' = NULL
    /\ tlb' = flush_tlb
    /\ last' = Call("as_deactivate", <<>>, OK)
    /\ UNCHANGED <<page_tables, thr, build, as, pte, mem, panicked>>

\* as_copy, called by fork on the running process's address space.  The
\* page table as_create made for newas is overwritten by the one
\* page_table_copy made (page_table_init): two allocated, one referenced.
\* regions_copy dereferences old->regions; with one region the walk that
\* looks for the heap runs off the list; a failed page_table_copy ends in
\* as_destroy(newas) with page_table == NULL, which page_table_destroy asserts.
as_copy(old, garbage, gtypes) ==
    /\ ~panicked
    /\ old = curas
    /\ as[old].live
    /\ Cardinality(LiveAS) < MaxAS
    /\ page_tables + 2 <= MaxPageTables
    /\ LET new == Lowest(FreeASIds)
           K == Heap(pte, mem)
           c == IF build = "embedded"
                THEN [failed |-> FALSE] @@ page_table_copy_as(K, as[old].page_table)
                ELSE page_table_copy_pt(K, as[old].page_table, garbage)
       IN IF Len(as[old].regions) < 2 \/ c.k.panic \/ c.failed
          THEN KernelPanic("as_copy", <<>>)
          ELSE /\ as' = [as EXCEPT ![new] =
                           [live |-> TRUE,
                            regions |-> regions_copy(as[old].regions, gtypes),
                            page_table |-> c.pt,
                            force_readwrite |-> as[old].force_readwrite,
                            heap |-> Len(as[old].regions) - 1,
                            stack |-> Len(as[old].regions)]]
               /\ pte' = c.k.pte
               /\ mem' = c.k.mem
               /\ last' = Call("as_copy", <<new>>, OK)
               /\ page_tables' = page_tables + 2
               /\ UNCHANGED <<thr, build, tlb, curas, panicked>>

\* as_destroy of an address space no process runs on.  free_region
\* dereferences as->regions.
as_destroy(a) ==
    /\ ~panicked
    /\ as[a].live
    /\ a # curas
    /\ LET K == Heap(pte, mem)
           d == IF build = "embedded" THEN page_table_destroy_as(K, as[a].page_table)
                ELSE page_table_destroy_pt(K, as[a].page_table)
       IN IF as[a].regions = <<>> \/ d.panic
          THEN KernelPanic("as_destroy", <<>>)
          ELSE /\ as' = [as EXCEPT ![a] = NoAS]
               /\ pte' = d.pte
               /\ mem' = d.mem
               /\ last' = Call("as_destroy", <<a>>, OK)
               /\ page_tables' = page_tables - 1
               /\ UNCHANGED <<thr, build, tlb, curas, panicked>>

\* The frame word of a PTE: pte->frame with its VALID and DIRTY bits.
Word(p) == [fn |-> pte[p].fn, valid |-> pte[p].valid, dirty |-> pte[p].dirty]

\* What the MIPS raises for an access of the running process: a READ or
\* WRITE fault when the TLB holds no entry for the page, a READONLY fault on
\* a write through an entry without DIRTY.
Raises(type, page) ==
    IF type = VM_FAULT_READONLY THEN tlb[page].present /\ ~tlb[page].dirty
    ELSE ~tlb[page].present

FaultReturn(page, type, ret, old) ==
    /\ last' = Call("vm_fault", <<type, page, old>>, ret)
    /\ UNCHANGED <<page_tables, thr, build, as, pte, mem, tlb, curas, panicked>>

\* vm_fault, the PTE-present branch (vm.c:206-232).
FaultPresent(a, page, type, p, garbage, victim) ==
    LET A == as[a]
        r == find_region(A.regions, page)
    IN IF type # VM_FAULT_READONLY
       THEN /\ tlb' = load_tlb(tlb, page, Word(p), A.force_readwrite, victim)
            /\ last' = Call("vm_fault", <<type, page, p>>, OK)
            /\ UNCHANGED <<page_tables, thr, build, as, pte, mem, curas, panicked>>
       ELSE IF r = NULL THEN KernelPanic("vm_fault", <<type, page, p>>)
       ELSE IF ~A.regions[r].writeable THEN FaultReturn(page, type, EFAULT, p)
       ELSE LET c == pte_copy_on_write(build, Heap(pte, mem), p, garbage) IN
            IF c.k.panic \/ c.p = NULL \/ c.k.pte[c.p].ref_count # 1
            THEN KernelPanic("vm_fault", <<type, page, p>>)
            ELSE /\ pte' = c.k.pte
                 /\ mem' = c.k.mem
                 /\ as' = [as EXCEPT ![a].page_table =
                             page_table_add_entry(build, A.page_table, page, c.p)]
                 /\ tlb' = load_tlb(tlb, page,
                                    [fn |-> c.k.pte[c.p].fn, valid |-> c.k.pte[c.p].valid,
                                     dirty |-> c.k.pte[c.p].dirty],
                                    A.force_readwrite, victim)
                 /\ last' = Call("vm_fault", <<type, page, p>>, OK)
                 /\ UNCHANGED <<page_tables, thr, build, curas, panicked>>

\* vm_fault, the first touch of a page (vm.c:238-286).  new_pte's result is
\* used without a NULL test.
FaultAbsent(a, page, type, garbage, victim) ==
    LET A == as[a]
        r == find_region(A.regions, page)
    IN IF r = NULL THEN FaultReturn(page, type, EFAULT, NULL)
       ELSE IF ~A.regions[r].readable /\ type = VM_FAULT_READ
       THEN FaultReturn(page, type, EFAULT, NULL)
       ELSE IF ~A.regions[r].writeable /\ ~A.force_readwrite /\ type = VM_FAULT_WRITE
       THEN FaultReturn(page, type, EFAULT, NULL)
       ELSE LET n == new_pte(Heap(pte, mem), garbage) IN
            IF n.p = NULL THEN KernelPanic("vm_fault", <<type, page, NULL>>)
            ELSE LET w == [fn |-> n.k.pte[n.p].fn, valid |-> TRUE,
                           dirty |-> A.regions[r].writeable]
                 IN /\ pte' = [n.k.pte EXCEPT ![n.p].valid = TRUE,
                                              ![n.p].dirty = A.regions[r].writeable]
                    /\ mem' = n.k.mem
                    /\ as' = [as EXCEPT ![a].page_table =
                                page_table_add_entry(build, A.page_table, page, n.p)]
                    /\ tlb' = load_tlb(tlb, page, w, A.force_readwrite, victim)
                    /\ last' = Call("vm_fault", <<type, page, NULL>>, OK)
                    /\ UNCHANGED <<page_tables, thr, build, curas, panicked>>

vm_fault(faulttype, faultaddress, garbage, victim) ==
    /\ ~panicked
    /\ Raises(faulttype, PageOf(faultaddress))
    /\ LET page == PageOf(faultaddress) IN
       IF curas = NULL THEN FaultReturn(page, faulttype, EFAULT, NULL)
       ELSE LET p == page_table_lookup(as[curas].page_table, page) IN
            IF p # NULL THEN FaultPresent(curas, page, faulttype, p, garbage, victim)
            ELSE FaultAbsent(curas, page, faulttype, garbage, victim)

\* A store of the running process through a writable TLB entry.
user_write(page, v) ==
    /\ ~panicked
    /\ curas # NULL
    /\ tlb[page].present /\ tlb[page].dirty
    /\ tlb[page].fn \in Frames
    /\ mem' = [mem EXCEPT ![tlb[page].fn].data = v]
    /\ last' = Call("user_write", <<>>, OK)
    /\ UNCHANGED <<page_tables, thr, build, as, pte, tlb, curas, panicked>>

\* The heap region and the region above it as sys_sbrk locates them.  The
\* find_region it calls and the code that sets heap_start and stack_start
\* are declared in addrspace.h and defined in no file of kern/vm; they are
\* taken to yield the regions as_define_stack recorded, NULL before it.
heap_region(A) == A.heap
stack_region(A) == A.stack

\* The list as_define_region leaves and what it returns (addrspace.c:581-597).
define_region(regions, r) ==
    IF \E i \in Compared(regions) : Overlap(regions[i], r.vbase, r.vtop)
    THEN [regions |-> regions, ret |-> EINVAL]
    ELSE [regions |-> Append(regions, r), ret |-> OK]

\* The first region with the greatest vtop (as_define_stack's walk).
Topmost(regions) ==
    Lowest({i \in 1..Len(regions) :
              \A j \in 1..Len(regions) : regions[j].vtop <= regions[i].vtop})

\* as_define_stack, called once by runprogram after the segments are loaded.
\* The heap is defined with no pages on top of the topmost region, then the
\* stack; neither as_define_region result is looked at, the last region of
\* the list is taken to be the one just defined and asserted to be it.
\* The call record holds the address space and *stackptr (as a page).
as_define_stack(a, gheap, gstack) ==
    /\ ~panicked
    /\ as[a].live
    /\ as[a].stack = NULL
    /\ IF as[a].regions = <<>>
       THEN KernelPanic("as_define_stack", <<>>)
       ELSE LET heap_base == as[a].regions[Topmost(as[a].regions)].vtop
                R1 == define_region(as[a].regions,
                         NewRegion(heap_base * PAGE_SIZE, 0, PF_R, PF_W, 0, gheap)).regions
                stack_base == USERSTACK_PAGE - YANG_VM_STACKPAGES
                R2 == define_region(R1,
                         [vbase |-> stack_base, npages |-> YANG_VM_STACKPAGES,
                          vtop |-> USERSTACK_PAGE, readable |-> TRUE,
                          writeable |-> TRUE, executable |-> FALSE,
                          type |-> gstack]).regions
            IN IF \/ R1[Len(R1)].vbase # heap_base \/ R1[Len(R1)].npages # 0
                  \/ R2[Len(R2)].vbase # stack_base
                  \/ R2[Len(R2)].npages # YANG_VM_STACKPAGES
               THEN KernelPanic("as_define_stack", <<>>)
               ELSE /\ as' = [as EXCEPT ![a].regions = R2,
                                        ![a].heap = Len(R1),
                                        ![a].stack = Len(R2)]
                    /\ last' = Call("as_define_stack", <<a, USERSTACK_PAGE>>, OK)
                    /\ UNCHANGED <<page_tables, thr, build, pte, mem, tlb, curas, panicked>>

\* A new_heap_end that rounds every amount up.
new_heap_end_ceil(old_heap_end, amount) ==
    LET sum == (old_heap_end + (amount \div PAGE_SIZE)) % AddressPages
    IN IF amount % PAGE_SIZE # 0 THEN (sum + 1) % AddressPages ELSE sum

\* A new_heap_end that never rounds up.
new_heap_end_floor(old_heap_end, amount) ==
    (old_heap_end + (amount \div PAGE_SIZE)) % AddressPages

\* A new_heap_end that rounds a negative amount towards zero.
new_heap_end_trunc(old_heap_end, amount) ==
    LET pages == IF amount < 0 THEN -((-amount) \div PAGE_SIZE) ELSE amount \div PAGE_SIZE
        sum == (old_heap_end + pages) % AddressPages
    IN IF amount > 0 /\ amount % PAGE_SIZE # 0 THEN (sum + 1) % AddressPages ELSE sum

\* old_heap_end + amount as sys_sbrk rounds it, in pages: vaddr_t arithmetic
\* wraps at 2^32; a positive amount rounds up, a negative one down.
new_heap_end(old_heap_end, amount) ==
    LET sum == (old_heap_end + (amount \div PAGE_SIZE)) % AddressPages
    IN IF amount > 0 /\ amount % PAGE_SIZE # 0 THEN (sum + 1) % AddressPages ELSE sum

\* A sys_sbrk without the early return for an amount of 0.
sys_sbrk_nozero(amount) ==
    /\ ~panicked
    /\ IF curas = NULL
       THEN /\ last' = Call("sys_sbrk", <<amount, NULL>>, ENOMEM)
            /\ UNCHANGED <<page_tables, thr, build, as, pte, mem, tlb, curas, panicked>>
       ELSE LET A == as[curas]
                heap == heap_region(A)
                stack == stack_region(A)
            IN IF heap = NULL \/ stack = NULL
               THEN KernelPanic("sys_sbrk", <<amount, NULL>>)
               ELSE IF amount % PAGE_SIZE = 0
                       /\ (amount \div PAGE_SIZE) % AddressPages = 0
               THEN KernelPanic("sys_sbrk", <<amount, NULL>>)
               ELSE LET old == A.regions[heap].vtop
                        new == new_heap_end(old, amount)
                    IN IF new < A.regions[heap].vbase \/ new >= A.regions[stack].vbase
                       THEN /\ last' = Call("sys_sbrk", <<amount, NULL>>, ENOMEM)
                            /\ UNCHANGED <<page_tables, thr, build, as, pte, mem, tlb, curas, panicked>>
                       ELSE /\ new - A.regions[heap].vbase <= MaxHeapPages
                            /\ as' = [as EXCEPT
                                       ![curas].regions[heap].vtop = new,
                                       ![curas].regions[heap].npages =
                                           new - A.regions[heap].vbase]
                            /\ last' = Call("sys_sbrk", <<amount, old>>, OK)
                            /\ UNCHANGED <<page_tables, thr, build, pte, mem, tlb, curas, panicked>>

\* sys_sbrk of the running process.  The call record holds the amount and
\* *retval (a page number; NULL when it is not written).  After the test
\* for 0, KASSERT(new_heap_end != old_heap_end) on the unrounded sum.
sys_sbrk(amount) ==
    /\ ~panicked
    /\ IF curas = NULL
       THEN /\ last' = Call("sys_sbrk", <<amount, NULL>>, ENOMEM)
            /\ UNCHANGED <<page_tables, thr, build, as, pte, mem, tlb, curas, panicked>>
       ELSE LET A == as[curas]
                heap == heap_region(A)
                stack == stack_region(A)
            IN IF heap = NULL \/ stack = NULL
               THEN KernelPanic("sys_sbrk", <<amount, NULL>>)
               ELSE IF amount = 0
               THEN /\ last' = Call("sys_sbrk", <<amount, A.regions[heap].vtop>>, OK)
                    /\ UNCHANGED <<page_tables, thr, build, as, pte, mem, tlb, curas, panicked>>
               ELSE IF amount % PAGE_SIZE = 0
                       /\ (amount \div PAGE_SIZE) % AddressPages = 0
               THEN KernelPanic("sys_sbrk", <<amount, NULL>>)
               ELSE LET old == A.regions[heap].vtop
                        new == new_heap_end(old, amount)
                    IN IF new < A.regions[heap].vbase \/ new >= A.regions[stack].vbase
                       THEN /\ last' = Call("sys_sbrk", <<amount, NULL>>, ENOMEM)
                            /\ UNCHANGED <<page_tables, thr, build, as, pte, mem, tlb, curas, panicked>>
                       ELSE /\ new - A.regions[heap].vbase <= MaxHeapPages
                            /\ as' = [as EXCEPT
                                       ![curas].regions[heap].vtop = new,
                                       ![curas].regions[heap].npages =
                                           new - A.regions[heap].vbase]
                            /\ last' = Call("sys_sbrk", <<amount, old>>, OK)
                            /\ UNCHANGED <<page_tables, thr, build, pte, mem, tlb, curas, panicked>>

\* A caller of page_table_add_entry: a PTE from new_pte goes into the slot of
\* the page, empty or not (what vm_fault does after its region checks).
add_entry(a, page, garbage) ==
    /\ ~panicked
    /\ as[a].live
    /\ LET R == new_pte(Heap(pte, mem), garbage) IN
       /\ pte' = R.k.pte
       /\ mem' = R.k.mem
       /\ IF R.p = NULL
          THEN /\ as' = as
               /\ last' = Call("page_table_add_entry", <<a, page, NULL>>, ENOMEM)
          ELSE /\ as' = [as EXCEPT ![a].page_table =
                                     page_table_add_entry(build, @, page, R.p)]
               /\ last' = Call("page_table_add_entry", <<a, page, R.p>>, OK)
    /\ UNCHANGED <<page_tables, thr, build, tlb, curas, panicked>>

\* A caller of page_table_remove_entry: the entry that comes back, if any,
\* is destroyed (the use sys_sbrk's disabled loop makes of it).
remove_entry(a, page) ==
    /\ ~panicked
    /\ as[a].live
    /\ LET R == page_table_remove_entry(build, as[a].page_table, page)
           K == IF R.entry = NULL THEN Heap(pte, mem)
                ELSE IF build = "embedded" THEN pte_destroy_as(Heap(pte, mem), R.entry)
                ELSE pte_destroy_pt(Heap(pte, mem), R.entry)
       IN IF K.panic THEN KernelPanic("page_table_remove_entry", <<a, page, R.entry>>)
          ELSE /\ as' = [as EXCEPT ![a].page_table = R.pt]
               /\ pte' = K.pte
               /\ mem' = K.mem
               /\ last' = Call("page_table_remove_entry", <<a, page, R.entry>>, OK)
               /\ UNCHANGED <<page_tables, thr, build, tlb, curas, panicked>>

\* sys_mmap: every argument is ignored and nothing is mapped.  The call
\* record holds length and offset.
sys_mmap(length, offset) ==
    /\ ~panicked
    /\ curas # NULL
    /\ last' = Call("sys_mmap", <<length, offset>>, ENOSYS)
    /\ UNCHANGED <<page_tables, thr, build, as, pte, mem, tlb, curas, panicked>>

\* --------------------------------------------------- threads and locks
\* The same calls taken one lock-delimited step at a time by kernel threads
\* that run at once: a READONLY fault of a process on a page it has a
\* translation for, as_destroy, and as_copy.  A step is what the code does
\* between two lock operations; what a thread does under a PTE lock is one
\* step.  Each thread makes one call.

PtLock(a) == <<"pt", a>>
PteLock(p) == <<"pte", p>>
Held(l) == \E t \in Threads : l \in thr[t].held
AllIdle == \A t \in Threads : thr[t].pc = "idle"
Running(t) == thr[t].pc \notin {"idle", "done"}
\* An address space a thread is working on, or building.
Busy(a) == \E t \in Threads : Running(t) /\ (thr[t].a = a \/ thr[t].new = a)
\* The thread goes on to take lock l and then to pc.
Take(r, l, pc) == [r EXCEPT !.pc = "acquire", !.want = l, !.next = pc]
\* The call returns: what stays is the call, what it found on entry and
\* what it returned.
Done(r, ret) == [IdleThread EXCEPT !.pc = "done", !.ret = ret, !.op = r.op, !.a = r.a,
                                   !.page = r.page, !.new = r.new, !.orig = r.orig,
                                   !.rc0 = r.rc0, !.p0 = r.p0, !.refs0 = r.refs0,
                                   !.own = r.own, !.room = r.room]
\* The PTEs page table pt references, and the slots that reference PTE p.
Entries(pt) == {page_table_lookup(pt, pg) : pg \in Occupied(pt)}
Slots(p) == {x \in ASIds \X Pages :
               as[x[1]].live /\ page_table_lookup(as[x[1]].page_table, x[2]) = p}
\* Threads are numbered in the order they enter the VM system.
NextIn(t) == thr[t].pc = "idle" /\ \A u \in Threads : u < t => thr[u].pc # "idle"

\* lock_acquire: the thread sleeps while another holds the lock.  A lock
\* pointer that pte_destroy has set to NULL fails KASSERT(lock != NULL).
lock_acquire(t) ==
    /\ ~panicked
    /\ thr[t].pc = "acquire"
    /\ IF thr[t].want[1] = "pte" /\ ~pte[thr[t].want[2]].lock
       THEN KernelPanic(thr[t].op, <<>>)
       ELSE /\ ~Held(thr[t].want)
            /\ thr' = [thr EXCEPT ![t].held = @ \cup {thr[t].want},
                                  ![t].pc = thr[t].next]
            /\ UNCHANGED <<page_tables, build, as, pte, mem, tlb, curas, panicked, last>>

\* pte_dec_ref of addrspace.c under the PTE lock, up to its lock_release;
\* when ref_count is 1 after the decrement it goes on to pte_destroy.
dec_ref(t) ==
    /\ ~panicked
    /\ thr[t].pc = "dec"
    /\ LET p == thr[t].p IN
       IF ~(pte[p].ref_count > 0) THEN KernelPanic(thr[t].op, <<>>)
       ELSE LET rc == IF pte[p].ref_count > 1 THEN pte[p].ref_count - 1
                      ELSE pte[p].ref_count
            IN /\ pte' = [pte EXCEPT ![p].ref_count = rc]
               /\ thr' = [thr EXCEPT ![t].held = @ \ {PteLock(p)},
                                     ![t].pc = IF rc = 1 THEN "destroy" ELSE thr[t].retpc]
               /\ UNCHANGED <<page_tables, build, as, mem, tlb, curas, panicked, last>>

\* pte_destroy, from its entry to lock_acquire: the assertions on the PTE
\* (ref_count == 1 in addrspace.c only).
destroy_pte_enter(t) ==
    /\ ~panicked
    /\ thr[t].pc = "destroy"
    /\ LET p == thr[t].p IN
       IF ~pte[p].lock \/ (build = "embedded" /\ pte[p].ref_count # 1)
       THEN KernelPanic(thr[t].op, <<>>)
       ELSE /\ thr' = [thr EXCEPT ![t] = Take(@, PteLock(p), "destroy_cs")]
            /\ UNCHANGED <<page_tables, build, as, pte, mem, tlb, curas, panicked, last>>

\* pte_destroy under the lock: the frame is freed (zeroed first in
\* page_table.c), the structure cleared and freed, the lock destroyed.
destroy_pte(t) ==
    /\ ~panicked
    /\ thr[t].pc = "destroy_cs"
    /\ LET p == thr[t].p IN
       /\ mem' = FreeFrameOf(mem, pte[p].fn, build = "page_table")
       /\ pte' = [pte EXCEPT ![p] = FreePTE]
       /\ thr' = [thr EXCEPT ![t].held = @ \ {PteLock(p)}, ![t].pc = thr[t].retpc]
    /\ UNCHANGED <<page_tables, build, as, tlb, curas, panicked, last>>

\* vm_fault(VM_FAULT_READONLY, page) of the process that owns a: entry.  A
\* READONLY fault comes from a write through a TLB entry, so the page has a
\* PTE.  page_table_lookup of page_table.c takes the page-table lock, the
\* static one of vm.c does not.
fault_enter(t, a, page) ==
    /\ ~panicked
    /\ NextIn(t)
    /\ as[a].live /\ ~Busy(a)
    /\ page_table_lookup(as[a].page_table, page) # NULL
    /\ LET p == page_table_lookup(as[a].page_table, page)
           r == [IdleThread EXCEPT !.op = "vm_fault", !.a = a, !.page = page,
                                   !.rc0 = pte[p].ref_count,
                                   !.p0 = p, !.refs0 = Cardinality(Slots(p)),
                                   !.own = Entries(as[a].page_table),
                                   !.room = (FreePTEIds(Heap(pte, mem)) # {}
                                             /\ FreeFrames(Heap(pte, mem)) # {}),
                                   !.orig = IF pte[p].fn \in Frames
                                            THEN mem[pte[p].fn].data ELSE 0]
       IN thr' = [thr EXCEPT ![t] = IF build = "page_table"
                                    THEN Take(r, PtLock(a), "lookup")
                                    ELSE [r EXCEPT !.pc = "lookup"]]
    /\ UNCHANGED <<page_tables, build, as, pte, mem, tlb, curas, panicked, last>>

\* page_table_lookup and the region test of the READONLY branch
\* (vm.c:201-216), up to the call of pte_copy_on_write.
fault_lookup(t) ==
    /\ ~panicked
    /\ thr[t].pc = "lookup"
    /\ LET a == thr[t].a
           p == page_table_lookup(as[a].page_table, thr[t].page)
           r == find_region(as[a].regions, thr[t].page)
           T == [thr[t] EXCEPT !.held = @ \ {PtLock(a)}, !.p = p]
       IN IF p # NULL /\ (r = NULL \/ (build = "page_table" /\ ~pte[p].lock))
          THEN KernelPanic("vm_fault", <<VM_FAULT_READONLY, thr[t].page, p>>)
          ELSE /\ thr' = [thr EXCEPT ![t] =
                            IF p = NULL THEN Done(T, "absent")
                            ELSE IF ~as[a].regions[r].writeable THEN Done(T, EFAULT)
                            ELSE IF build = "page_table" THEN Take(T, PteLock(p), "cow")
                            ELSE [T EXCEPT !.pc = "cow"]]
               /\ UNCHANGED <<page_tables, build, as, pte, mem, tlb, curas, panicked, last>>

\* A fault_cow that keeps the PTE lock while it goes on to
\* page_table_add_entry.
fault_cow_keep(t, garbage) ==
    /\ ~panicked
    /\ thr[t].pc = "cow"
    /\ LET p == thr[t].p
           c == pte_copy_on_write_pt(Heap(pte, mem), p, garbage)
       IN IF c.k.panic \/ c.p = NULL
          THEN KernelPanic("vm_fault", <<VM_FAULT_READONLY, thr[t].page, p>>)
          ELSE /\ pte' = c.k.pte
               /\ mem' = c.k.mem
               /\ thr' = [thr EXCEPT ![t] =
                            Take([@ EXCEPT !.n = c.p,
                                           !.paddr = [fn |-> c.k.pte[c.p].fn,
                                                      valid |-> c.k.pte[c.p].valid,
                                                      dirty |-> c.k.pte[c.p].dirty]],
                                 PtLock(thr[t].a), "add")]
               /\ UNCHANGED <<page_tables, build, as, tlb, curas, panicked, last>>

\* pte_copy_on_write and the two assertions on its result (vm.c:219-222).
\* page_table.c: the whole function under the PTE lock.  vm.c: no lock; a
\* sole owner is marked writable, otherwise the page is copied and the old
\* reference dropped with pte_dec_ref, which takes the PTE lock.
fault_cow(t, garbage) ==
    /\ ~panicked
    /\ thr[t].pc = "cow"
    /\ LET p == thr[t].p
           K == Heap(pte, mem)
       IN IF build = "page_table"
          THEN LET c == pte_copy_on_write_pt(K, p, garbage) IN
               IF c.k.panic \/ c.p = NULL \/ c.k.pte[c.p].ref_count # 1
               THEN KernelPanic("vm_fault", <<VM_FAULT_READONLY, thr[t].page, p>>)
               ELSE /\ pte' = c.k.pte
                    /\ mem' = c.k.mem
                    /\ thr' = [thr EXCEPT ![t] =
                                 Take([@ EXCEPT !.n = c.p, !.held = @ \ {PteLock(p)},
                                                !.paddr = [fn |-> c.k.pte[c.p].fn,
                                                           valid |-> c.k.pte[c.p].valid,
                                                           dirty |-> c.k.pte[c.p].dirty]],
                                      PtLock(thr[t].a), "add")]
                    /\ UNCHANGED <<page_tables, build, as, tlb, curas, panicked, last>>
          ELSE IF pte[p].ref_count = 1
          THEN /\ pte' = [pte EXCEPT ![p].dirty = TRUE]
               /\ thr' = [thr EXCEPT ![t].n = p, ![t].pc = "add"]
               /\ UNCHANGED <<page_tables, build, as, mem, tlb, curas, panicked, last>>
          ELSE LET n == new_pte(K, garbage) IN
               IF n.p = NULL \/ ~pte[p].lock
               THEN KernelPanic("vm_fault", <<VM_FAULT_READONLY, thr[t].page, p>>)
               ELSE LET K1 == CopyInto(n.k, n.p, p) IN
                    /\ pte' = [K1.pte EXCEPT ![n.p].dirty = TRUE]
                    /\ mem' = K1.mem
                    /\ thr' = [thr EXCEPT ![t] =
                                 Take([@ EXCEPT !.n = n.p, !.retpc = "add"],
                                      PteLock(p), "dec")]
                    /\ UNCHANGED <<page_tables, build, as, tlb, curas, panicked, last>>

\* page_table_add_entry and load_tlb on the CPU of the running process,
\* return 0.  page_table.c: under the page-table lock, with the frame word
\* read before it.  vm.c: pte_copy_on_write has just returned, so the two
\* assertions on its result and the read of the frame word come first.
fault_add(t, victim) ==
    /\ ~panicked
    /\ thr[t].pc = "add"
    /\ LET a == thr[t].a
           n == thr[t].n
           word == IF build = "page_table" THEN thr[t].paddr ELSE Word(n)
       IN IF build = "embedded" /\ pte[n].ref_count # 1
          THEN KernelPanic("vm_fault", <<VM_FAULT_READONLY, thr[t].page, thr[t].p>>)
          ELSE /\ as' = [as EXCEPT ![a].page_table =
                            page_table_add_entry(build, @, thr[t].page, n)]
               /\ tlb' = IF a = curas
                         THEN load_tlb(tlb, thr[t].page, word, as[a].force_readwrite, victim)
                         ELSE tlb
               /\ thr' = [thr EXCEPT ![t] = Done(@, OK)]
               /\ UNCHANGED <<page_tables, build, pte, mem, curas, panicked, last>>

\* as_destroy of an address space no process runs on: free_region, then
\* page_table_destroy takes the page-table lock.
destroy_enter(t, a) ==
    /\ ~panicked
    /\ NextIn(t)
    /\ as[a].live /\ ~Busy(a) /\ a # curas
    /\ IF as[a].regions = <<>> THEN KernelPanic("as_destroy", <<>>)
       ELSE /\ thr' = [thr EXCEPT ![t] =
                         Take([IdleThread EXCEPT !.op = "as_destroy", !.a = a, !.i = 1,
                                 !.own = Entries(as[a].page_table),
                                 !.order = SortedSeq(Occupied(as[a].page_table))],
                              PtLock(a), "loop")]
            /\ UNCHANGED <<page_tables, build, as, pte, mem, tlb, curas, panicked, last>>

\* The entry loop of page_table_destroy: the next entry's PTE lock is
\* wanted (by l2_table_destroy in page_table.c, by pte_dec_ref in
\* addrspace.c); after the last entry the tables and the address space are
\* freed and the page-table lock released and destroyed.
destroy_loop(t) ==
    /\ ~panicked
    /\ thr[t].op = "as_destroy" /\ thr[t].pc = "loop"
    /\ LET a == thr[t].a IN
       IF thr[t].i > Len(thr[t].order)
       THEN IF build = "page_table"
               /\ \E l1 \in L1Slots : as[a].page_table[l1].present
                                      /\ as[a].page_table[l1].count # 0
            THEN KernelPanic("as_destroy", <<>>)
            ELSE /\ as' = [as EXCEPT ![a] = NoAS]
                 /\ thr' = [thr EXCEPT ![t] = Done(@, OK)]
                 /\ page_tables' = page_tables - 1
                 /\ UNCHANGED <<build, pte, mem, tlb, curas, panicked, last>>
       ELSE LET p == page_table_lookup(as[a].page_table, thr[t].order[thr[t].i]) IN
            IF ~pte[p].lock THEN KernelPanic("as_destroy", <<>>)
            ELSE /\ thr' = [thr EXCEPT ![t] =
                              Take([@ EXCEPT !.p = p, !.retpc = "next"], PteLock(p),
                                   IF build = "page_table" THEN "l2ent" ELSE "dec")]
                 /\ UNCHANGED <<page_tables, build, as, pte, mem, tlb, curas, panicked, last>>

\* l2_table_destroy of page_table.c under the PTE lock: one reference less,
\* or, for the last one, lock_release and then pte_destroy.
destroy_l2ent(t) ==
    /\ ~panicked
    /\ thr[t].pc = "l2ent"
    /\ LET p == thr[t].p IN
       IF ~(pte[p].ref_count > 0) THEN KernelPanic(thr[t].op, <<>>)
       ELSE /\ pte' = IF pte[p].ref_count > 1
                      THEN [pte EXCEPT ![p].ref_count = @ - 1] ELSE pte
            /\ thr' = [thr EXCEPT ![t].held = @ \ {PteLock(p)},
                                  ![t].pc = IF pte[p].ref_count > 1 THEN thr[t].retpc
                                            ELSE "destroy"]
            /\ UNCHANGED <<page_tables, build, as, mem, tlb, curas, panicked, last>>

\* The entry is done: page_table.c clears the slot and counts it off.
destroy_next(t) ==
    /\ ~panicked
    /\ thr[t].pc = "next"
    /\ LET a == thr[t].a
           page == thr[t].order[thr[t].i]
       IN as' = IF build = "page_table"
                THEN [as EXCEPT ![a].page_table[L1_INDEX(page)].entries[L2_INDEX(page)] = NULL,
                                ![a].page_table[L1_INDEX(page)].count = @ - 1]
                ELSE as
    /\ thr' = [thr EXCEPT ![t].i = @ + 1, ![t].pc = "loop"]
    /\ UNCHANGED <<page_tables, build, pte, mem, tlb, curas, panicked, last>>

\* as_copy of the address space of the forking process: as_create (its
\* page table is not freed when page_table_copy's replaces it),
\* regions_copy, page_table_init, then the lock of the old page table.
copy_enter(t, a, gtypes) ==
    /\ ~panicked
    /\ NextIn(t)
    /\ as[a].live /\ ~Busy(a)
    /\ FreeASIds # {}
    /\ page_tables + 2 <= MaxPageTables
    /\ IF as[a].regions = <<>> THEN KernelPanic("as_copy", <<>>)
       ELSE LET new == Lowest(FreeASIds) IN
            /\ as' = [as EXCEPT ![new] =
                        [live |-> TRUE,
                         regions |-> regions_copy(as[a].regions, gtypes),
                         page_table |-> [l1 \in L1Slots |->
                                           IF as[a].page_table[l1].present
                                           THEN l2_table_init ELSE NoTable],
                         force_readwrite |-> FALSE,
                         heap |-> NULL, stack |-> NULL]]
            /\ thr' = [thr EXCEPT ![t] =
                         Take([IdleThread EXCEPT !.op = "as_copy", !.a = a, !.new = new,
                                 !.i = 1,
                                 !.order = SortedSeq(Occupied(as[a].page_table))],
                              PtLock(a), "loop")]
            /\ page_tables' = page_tables + 2
            /\ UNCHANGED <<build, pte, mem, tlb, curas, panicked, last>>

\* The entry loop of page_table_copy: pte_inc_ref for an entry that is
\* shared (every entry in addrspace.c), pte_copy otherwise; after the last
\* entry the lock is released and as_copy sets force_readwrite, heap and
\* stack (the walk for the heap needs two regions).
copy_loop(t) ==
    /\ ~panicked
    /\ thr[t].op = "as_copy" /\ thr[t].pc = "loop"
    /\ LET a == thr[t].a
           new == thr[t].new
       IN IF thr[t].i > Len(thr[t].order)
          THEN IF Len(as[a].regions) < 2 THEN KernelPanic("as_copy", <<>>)
               ELSE /\ as' = [as EXCEPT ![new].force_readwrite = as[a].force_readwrite,
                                        ![new].heap = Len(as[a].regions) - 1,
                                        ![new].stack = Len(as[a].regions)]
                    /\ thr' = [thr EXCEPT ![t] = Done(@, OK)]
                    /\ UNCHANGED <<page_tables, build, pte, mem, tlb, curas, panicked, last>>
          ELSE LET p == page_table_lookup(as[a].page_table, thr[t].order[thr[t].i]) IN
               IF ~pte[p].lock THEN KernelPanic("as_copy", <<>>)
               ELSE /\ thr' = [thr EXCEPT ![t] =
                                 Take([@ EXCEPT !.p = p], PteLock(p),
                                      IF build = "embedded" \/ pte[p].shared
                                      THEN "inc" ELSE "pcopy")]
                    /\ UNCHANGED <<page_tables, build, as, pte, mem, tlb, curas, panicked, last>>

\* pte_inc_ref under the PTE lock; the same PTE goes into the new table.
copy_inc(t) ==
    /\ ~panicked
    /\ thr[t].pc = "inc"
    /\ LET p == thr[t].p
           K == pte_inc_ref(Heap(pte, mem), p)
       IN IF K.panic THEN KernelPanic("as_copy", <<>>)
          ELSE /\ pte' = K.pte
               /\ as' = [as EXCEPT ![thr[t].new].page_table =
                            page_table_add_entry(build, @, thr[t].order[thr[t].i], p)]
               /\ thr' = [thr EXCEPT ![t].held = @ \ {PteLock(p)},
                                     ![t].i = @ + 1, ![t].pc = "loop"]
               /\ UNCHANGED <<page_tables, build, mem, tlb, curas, panicked, last>>

\* pte_copy of page_table.c under the PTE lock; the copy goes into the new
\* table.  After a failed copy l2_table_copy calls l2_table_destroy on the
\* table it was filling.
copy_pcopy(t, garbage) ==
    /\ ~panicked
    /\ thr[t].pc = "pcopy"
    /\ LET p == thr[t].p
           c == pte_copy(Heap(pte, mem), p, garbage)
       IN IF c.k.panic THEN KernelPanic("as_copy", <<>>)
          ELSE IF c.p = NULL
          THEN /\ pte' = c.k.pte
               /\ mem' = c.k.mem
               /\ thr' = [thr EXCEPT ![t].held = @ \ {PteLock(p)}, ![t].i = 1,
                                     ![t].order = SortedSeq(Occupied(as[thr[t].new].page_table)),
                                     ![t].pc = "fail_loop"]
               /\ UNCHANGED <<page_tables, build, as, tlb, curas, panicked, last>>
          ELSE /\ pte' = c.k.pte
               /\ mem' = c.k.mem
               /\ as' = [as EXCEPT ![thr[t].new].page_table =
                            page_table_add_entry(build, @, thr[t].order[thr[t].i], c.p)]
               /\ thr' = [thr EXCEPT ![t].held = @ \ {PteLock(p)},
                                     ![t].i = @ + 1, ![t].pc = "loop"]
               /\ UNCHANGED <<page_tables, build, tlb, curas, panicked, last>>

\* l2_table_destroy(new) after a failed pte_copy, the old page table's lock
\* still held: the PTE lock of the next entry already copied; after the
\* last one page_table_copy calls page_table_destroy(new), which takes the
\* new page table's lock.
copy_fail_loop(t) ==
    /\ ~panicked
    /\ thr[t].pc = "fail_loop"
    /\ IF thr[t].i > Len(thr[t].order)
       THEN /\ thr' = [thr EXCEPT ![t] = Take(@, PtLock(thr[t].new), "fail_end")]
            /\ UNCHANGED <<page_tables, build, as, pte, mem, tlb, curas, panicked, last>>
       ELSE LET p == page_table_lookup(as[thr[t].new].page_table, thr[t].order[thr[t].i]) IN
            IF ~pte[p].lock THEN KernelPanic("as_copy", <<>>)
            ELSE /\ thr' = [thr EXCEPT ![t] =
                              Take([@ EXCEPT !.p = p, !.retpc = "fail_next"],
                                   PteLock(p), "l2ent")]
                 /\ UNCHANGED <<page_tables, build, as, pte, mem, tlb, curas, panicked, last>>

\* The entry of the new table is done: slot cleared and counted off.
copy_fail_next(t) ==
    /\ ~panicked
    /\ thr[t].pc = "fail_next"
    /\ LET page == thr[t].order[thr[t].i] IN
       as' = [as EXCEPT ![thr[t].new].page_table[L1_INDEX(page)].entries[L2_INDEX(page)] = NULL,
                        ![thr[t].new].page_table[L1_INDEX(page)].count = @ - 1]
    /\ thr' = [thr EXCEPT ![t].i = @ + 1, ![t].pc = "fail_loop"]
    /\ UNCHANGED <<page_tables, build, pte, mem, tlb, curas, panicked, last>>

\* page_table_destroy(new) done, page_table_copy releases the old lock and
\* returns NULL; as_copy calls as_destroy(newas), whose
\* page_table_destroy(NULL) fails KASSERT(page_table != NULL).
copy_fail_end(t) ==
    /\ ~panicked
    /\ thr[t].pc = "fail_end"
    /\ KernelPanic("as_copy", <<>>)

Init ==
    /\ build \in Builds
    /\ as = [a \in ASIds |-> NoAS]
    /\ pte = [i \in PTEIds |-> FreePTE]
    /\ mem = [f \in Frames |-> FreeFrame]
    /\ tlb = flush_tlb
    /\ curas = NULL
    /\ panicked = FALSE
    /\ last = Call("boot", <<>>, OK)
    /\ thr = [t \in Threads |-> IdleThread]
    /\ page_tables = 0

\* The operations, with as_define_region's arguments drawn from defs and
\* the contents of uninitialised region.type fields from gts.
NextOver(defs, gts) ==
    \/ as_create
    \/ \E a \in ASIds, d \in defs, gtype \in gts :
          as_define_region(a, d[1], d[2], d[3], d[4], d[5], gtype)
    \/ \E a \in ASIds : as_activate(a)
    \/ as_deactivate
    \/ \E a \in ASIds, garbage \in Garbage, gtypes \in [1..MaxList -> gts] :
          as_copy(a, garbage, gtypes)
    \/ \E a \in ASIds : as_destroy(a)
    \/ \E type \in {VM_FAULT_READ, VM_FAULT_WRITE, VM_FAULT_READONLY},
          faultaddress \in FaultAddrs, garbage \in Garbage, victim \in Pages :
          vm_fault(type, faultaddress, garbage, victim)
    \/ \E page \in Pages, v \in 1..MaxVal : user_write(page, v)

Next == NextOver(DefRegions, {UNNAMED_REGION})

Spec == Init /\ [][Next]_vars

\* ---------------------------------------------------------------- claims

\* The page-table slots (address space, page) that hold PTE p.
SlotsOf(p) ==
    {sl \in ASIds \X Pages :
        as[sl[1]].live /\ page_table_lookup(as[sl[1]].page_table, sl[2]) = p}
Refs(p) == Cardinality(SlotsOf(p))
Installed == {p \in PTEIds : SlotsOf(p) # {}}
SlotsOfNext(p) ==
    {sl \in ASIds \X Pages :
        as'[sl[1]].live /\ page_table_lookup(as'[sl[1]].page_table, sl[2]) = p}

IsFault(call, type) == call.op = "vm_fault" /\ call.args[1] = type

\* C1: every PTE installed in a page-table slot has ref_count >= 1, and an
\* installed PTE with DIRTY set has ref_count exactly 1.
C1_RefcountAndDirty ==
    \A p \in Installed :
        pte[p].ref_count >= 1 /\ (pte[p].dirty => pte[p].ref_count = 1)

\* C2: the ref_count of every PTE equals the number of page-table slots,
\* over all live address spaces, that hold it.
C2_RefcountIsSlotCount ==
    \A p \in PTEIds :
        ((pte[p].live /\ pte[p].lock) \/ p \in Installed) => pte[p].ref_count = Refs(p)

\* C3: no TLB entry maps a frame as writable while the PTE that owns the
\* frame has ref_count > 1, so a write to a shared page always faults first.
C3_NoWritableTlbOnShared ==
    \A page \in Pages, p \in PTEIds :
        (tlb[page].present /\ tlb[page].dirty /\ pte[p].live /\ pte[p].fn = tlb[page].fn)
            => pte[p].ref_count <= 1

\* C4: a READONLY fault in a writable region on a PTE with ref_count n >= 2
\* leaves the slot with a different PTE (ref_count 1, DIRTY, the same page
\* contents); the original keeps ref_count n - 1, DIRTY clear, and stays in
\* every other slot that held it (memory for the copy being available).
C4_Step ==
    (IsFault(last', VM_FAULT_READONLY) /\ last'.args[3] # NULL
        /\ pte[last'.args[3]].ref_count >= 2 /\ last'.ret # EFAULT
        /\ FreePTEIds(Heap(pte, mem)) # {} /\ FreeFrames(Heap(pte, mem)) # {})
    => LET old == last'.args[3]
           new == page_table_lookup(as'[curas].page_table, last'.args[2])
       IN /\ last'.ret = OK
          /\ new # old /\ new # NULL
          /\ pte'[new].ref_count = 1 /\ pte'[new].dirty
          /\ pte'[new].fn \in Frames /\ pte[old].fn \in Frames
          /\ mem'[pte'[new].fn].data = mem[pte[old].fn].data
          /\ pte'[old].ref_count = pte[old].ref_count - 1
          /\ ~pte'[old].dirty
          /\ SlotsOfNext(old) = SlotsOf(old) \ {<<curas, last'.args[2]>>}
C4_CopyOnWriteSplits == [][C4_Step]_vars

\* C5: pte_copy_on_write on a PTE with ref_count 1 returns that PTE with
\* DIRTY set, allocates no frame and leaves ref_count at 1; a READONLY
\* fault on such a PTE leaves the slot holding the same PTE.
C5_Step ==
    /\ \A p \in PTEIds, g \in Garbage :
          (pte[p].live /\ pte[p].lock /\ pte[p].ref_count = 1)
          => LET c == pte_copy_on_write(build, Heap(pte, mem), p, g) IN
             /\ c.p = p /\ ~c.k.panic
             /\ c.k.pte = [pte EXCEPT ![p].dirty = TRUE]
             /\ c.k.mem = mem
    /\ (IsFault(last', VM_FAULT_READONLY) /\ last'.args[3] # NULL
          /\ pte[last'.args[3]].ref_count = 1 /\ last'.ret # EFAULT)
       => LET old == last'.args[3] IN
          /\ last'.ret = OK
          /\ page_table_lookup(as'[curas].page_table, last'.args[2]) = old
          /\ pte' = [pte EXCEPT ![old].dirty = TRUE]
          /\ {f \in Frames : mem'[f].used} = {f \in Frames : mem[f].used}
C5_SoleOwnerKeepsPte == [][C5_Step]_vars

\* C5's case: a READONLY fault has just been served on a sole-owned PTE that
\* was not writable, and the slot still holds it.
C5_Witness ==
    /\ IsFault(last, VM_FAULT_READONLY) /\ last.ret = OK
    /\ last.args[3] # NULL
    /\ page_table_lookup(as[curas].page_table, last.args[2]) = last.args[3]
    /\ pte[last.args[3]].ref_count = 1 /\ pte[last.args[3]].dirty

\* The operations on region lists alone, with every content an
\* uninitialised region.type field can hold.
NextRegions ==
    \/ as_create
    \/ \E a \in ASIds, d \in DefRegions, gtype \in GarbageTypes :
          as_define_region(a, d[1], d[2], d[3], d[4], d[5], gtype)
    \/ \E a \in ASIds : as_activate(a)
    \/ as_deactivate
    \/ \E a \in ASIds, garbage \in Garbage, gtypes \in [1..MaxList -> GarbageTypes] :
          as_copy(a, garbage, gtypes)
    \/ \E a \in ASIds : as_destroy(a)

SpecRegions == Init /\ [][NextRegions]_vars

\* C6: after a successful as_copy the child's region list equals the
\* parent's region by region (bounds, permissions, type), every occupied
\* parent slot has a child slot holding the same PTE with DIRTY clear or a
\* distinct PTE with equal page contents, and the child has no other slot.
C6_Step ==
    (last'.op = "as_copy" /\ last'.ret = OK)
    => LET new == last'.args[1] IN
       /\ as'[new].regions = as'[curas].regions
       /\ \A page \in Pages :
             LET po == page_table_lookup(as'[curas].page_table, page)
                 pn == page_table_lookup(as'[new].page_table, page)
             IN /\ (po = NULL) = (pn = NULL)
                /\ po # NULL =>
                     \/ pn = po /\ ~pte'[po].dirty
                     \/ /\ pn # po
                        /\ pte'[po].fn \in Frames /\ pte'[pn].fn \in Frames
                        /\ mem'[pte'[pn].fn].data = mem'[pte'[po].fn].data
C6_CopyMirrorsParent == [][C6_Step]_vars

\* The region type the sharing policy of a page depends on.
TypeAt(a, page) == as[a].regions[find_region(as[a].regions, page)].type

\* C7: a PTE installed by a first-touch fault has shared = TRUE unless its
\* region is the stack; after as_copy the child's stack PTEs are distinct
\* with ref_count 1 and every other PTE is the parent's, ref_count raised.
C7_Step ==
    /\ (last'.op = "vm_fault" /\ last'.ret = OK /\ last'.args[3] = NULL)
       => LET p == page_table_lookup(as'[curas].page_table, last'.args[2]) IN
          p # NULL /\ pte'[p].shared = (TypeAt(curas, last'.args[2]) # STACK_REGION)
    /\ (last'.op = "as_copy" /\ last'.ret = OK)
       => \A page \in Pages :
             LET po == page_table_lookup(as[curas].page_table, page)
                 pn == page_table_lookup(as'[last'.args[1]].page_table, page)
             IN po # NULL =>
                  IF TypeAt(curas, page) = STACK_REGION
                  THEN pn # po /\ pn # NULL /\ pte'[pn].ref_count = 1
                  ELSE pn = po /\ pte'[po].ref_count = pte[po].ref_count + 1
C7_SharingPolicy == [][C7_Step]_vars

\* C8: as_destroy frees every frame whose PTE only the destroyed address
\* space references, and leaves allocated and unchanged every frame whose
\* PTE another live address space still references.
C8_Step ==
    (last'.op = "as_destroy" /\ last'.ret = OK)
    => \A p \in PTEIds :
          (\E page \in Pages : <<last'.args[1], page>> \in SlotsOf(p))
          => IF \A sl \in SlotsOf(p) : sl[1] = last'.args[1]
             THEN pte[p].fn \in Frames /\ ~mem'[pte[p].fn].used
             ELSE /\ pte'[p].live /\ pte'[p].fn = pte[p].fn
                  /\ pte[p].fn \in Frames
                  /\ mem'[pte[p].fn] = mem[pte[p].fn] /\ mem[pte[p].fn].used
C8_DestroyFreesOnlyExclusive == [][C8_Step]_vars

\* C9: pte_dec_ref on a PTE with ref_count n > 1 only lowers ref_count to
\* n - 1; the PTE is destroyed and its frame freed only at ref_count = 1.
C9_DecRef ==
    \A p \in PTEIds :
        (pte[p].live /\ pte[p].lock /\ pte[p].ref_count >= 1)
        => LET K == pte_dec_ref(build, Heap(pte, mem), p) IN
           IF pte[p].ref_count > 1
           THEN /\ ~K.panic
                /\ K.pte = [pte EXCEPT ![p].ref_count = @ - 1]
                /\ K.mem = mem
           ELSE /\ ~K.panic
                /\ ~K.pte[p].live
                /\ ~K.mem[pte[p].fn].used

\* C10: as_define_region returns EINVAL whenever the aligned range overlaps
\* any region already in the list, the only and the last one included, and
\* then the list is unchanged.
C10_Step ==
    (last'.op = "as_define_region"
        /\ \E i \in 1..Len(as[last'.args[1]].regions) :
              Overlap(as[last'.args[1]].regions[i], last'.args[2], last'.args[3]))
    => last'.ret = EINVAL /\ as' = as
C10_OverlapRejected == [][C10_Step]_vars

\* A program that is loaded, gets its stack and heap, moves its break and
\* touches its pages.
NextHeap ==
    \/ as_create
    \/ \E a \in ASIds, d \in DefRegions :
          as_define_region(a, d[1], d[2], d[3], d[4], d[5], UNNAMED_REGION)
    \/ \E a \in ASIds, gheap \in GarbageTypes, gstack \in GarbageTypes :
          as_define_stack(a, gheap, gstack)
    \/ \E a \in ASIds : as_activate(a)
    \/ \E amount \in Amounts : sys_sbrk(amount)
    \/ \E m \in MmapArgs : sys_mmap(m[1], m[2])
    \/ \E type \in {VM_FAULT_READ, VM_FAULT_WRITE, VM_FAULT_READONLY},
          faultaddress \in FaultAddrs, garbage \in Garbage, victim \in Pages :
          vm_fault(type, faultaddress, garbage, victim)

SpecHeap == Init /\ [][NextHeap]_vars

\* C11: after every mutation of a region list (as_define_region in any
\* order of base addresses, as_define_stack, sys_sbrk) the list is sorted
\* ascending by vbase and no two of its regions overlap.  (Bounds are page
\* numbers here, so alignment is not a separate condition.)
C11_RegionsSortedDisjoint ==
    \A a \in ASIds : as[a].live =>
        \A i, j \in 1..Len(as[a].regions) :
            i < j => /\ as[a].regions[i].vbase <= as[a].regions[j].vbase
                     /\ ~Overlap(as[a].regions[i], as[a].regions[j].vbase,
                                 as[a].regions[j].vtop)

\* The access the fault reports is one the region allows.
Permitted(A, r, type) ==
    \/ type = VM_FAULT_READ /\ A.regions[r].readable
    \/ type = VM_FAULT_WRITE /\ (A.regions[r].writeable \/ A.force_readwrite)

\* C12: vm_fault returns EFAULT for a fault address in no region, whatever
\* the fault type and whether or not the page has a PTE, and changes nothing
\* then; a permitted fault on the first or last page of a region succeeds.
C12_Step ==
    (last'.op = "vm_fault" /\ curas # NULL)
    => LET r == find_region(as[curas].regions, last'.args[2]) IN
       /\ r = NULL => /\ last'.ret = EFAULT
                      /\ UNCHANGED <<as, pte, mem, tlb>>
       /\ (r # NULL /\ Permitted(as[curas], r, last'.args[1])
             /\ last'.args[2] \in {as[curas].regions[r].vbase,
                                   as[curas].regions[r].vtop - 1}
             /\ FreePTEIds(Heap(pte, mem)) # {} /\ FreeFrames(Heap(pte, mem)) # {})
          => last'.ret = OK
C12_NoRegionIsBadAccess == [][C12_Step]_vars

\* A program being loaded: its segments are defined, load_elf brackets its
\* writes with as_prepare_load and as_complete_load, the program runs.
NextLoad ==
    \/ as_create
    \/ \E a \in ASIds, d \in LoadRegions :
          as_define_region(a, d[1], d[2], d[3], d[4], d[5], UNNAMED_REGION)
    \/ \E a \in ASIds : as_prepare_load(a)
    \/ \E a \in ASIds : as_complete_load(a)
    \/ \E a \in ASIds : as_activate(a)
    \/ \E type \in {VM_FAULT_READ, VM_FAULT_WRITE, VM_FAULT_READONLY},
          faultaddress \in FaultAddrs, garbage \in Garbage, victim \in Pages :
          vm_fault(type, faultaddress, garbage, victim)

SpecLoad == Init /\ [][NextLoad]_vars

\* C13: a READ fault on a non-readable region, and a WRITE or READONLY fault
\* on a non-writable region while force_readwrite is off, return EFAULT,
\* with or without a PTE at the page, and install no PTE and write no TLB
\* entry.
C13_Step ==
    (last'.op = "vm_fault" /\ curas # NULL)
    => LET A == as[curas]
           r == find_region(A.regions, last'.args[2])
       IN (/\ r # NULL
           /\ \/ last'.args[1] = VM_FAULT_READ /\ ~A.regions[r].readable
              \/ /\ last'.args[1] \in {VM_FAULT_WRITE, VM_FAULT_READONLY}
                 /\ ~A.regions[r].writeable /\ ~A.force_readwrite)
          => last'.ret = EFAULT /\ UNCHANGED <<as, pte, mem, tlb>>
C13_PermissionsEnforced == [][C13_Step]_vars

\* C14: force_readwrite is false after as_create, true after
\* as_prepare_load, false after as_complete_load; while it is true a WRITE
\* fault on a non-writable region succeeds with a writable TLB entry, and
\* the PTE at the page has DIRTY only if the region is writable.
C14_Step ==
    /\ last'.op = "as_create"
         => \A a \in ASIds : (~as[a].live /\ as'[a].live) => ~as'[a].force_readwrite
    /\ (last'.op = "as_prepare_load" /\ last'.ret = OK)
         => as'[last'.args[1]].force_readwrite
    /\ (last'.op = "as_complete_load" /\ last'.ret = OK)
         => ~as'[last'.args[1]].force_readwrite
    /\ (IsFault(last', VM_FAULT_WRITE) /\ curas # NULL)
         => LET A == as[curas]
                page == last'.args[2]
                r == find_region(A.regions, page)
            IN (r # NULL /\ A.force_readwrite /\ ~A.regions[r].writeable)
               => LET p == page_table_lookup(as'[curas].page_table, page) IN
                  /\ last'.ret = OK
                  /\ tlb'[page].present /\ tlb'[page].dirty
                  /\ p # NULL /\ tlb'[page].fn = pte'[p].fn
                  /\ ~pte'[p].dirty
C14_ForceReadwrite == [][C14_Step]_vars

\* C14's case: a WRITE fault on a read-only region has just been served
\* while force_readwrite was on, and the TLB entry is writable.
C14_Witness ==
    /\ IsFault(last, VM_FAULT_WRITE) /\ last.ret = OK /\ curas # NULL
    /\ as[curas].force_readwrite
    /\ find_region(as[curas].regions, last.args[2]) # NULL
    /\ ~as[curas].regions[find_region(as[curas].regions, last.args[2])].writeable
    /\ tlb[last.args[2]].present /\ tlb[last.args[2]].dirty

\* C15: a permitted fault on a page with no PTE installs exactly one new PTE
\* in the page's slot, with a zero-filled frame, ref_count 1, VALID, and
\* DIRTY exactly when the region is writable; it writes a TLB entry for the
\* page, leaves every other slot as it was and returns 0 (a PTE structure
\* and a frame being available).
C15_Step ==
    (last'.op = "vm_fault" /\ curas # NULL /\ last'.args[3] = NULL)
    => LET A == as[curas]
           page == last'.args[2]
           r == find_region(A.regions, page)
       IN (/\ r # NULL /\ Permitted(A, r, last'.args[1])
           /\ FreePTEIds(Heap(pte, mem)) # {} /\ FreeFrames(Heap(pte, mem)) # {})
          => LET p == page_table_lookup(as'[curas].page_table, page) IN
             /\ last'.ret = OK
             /\ p # NULL /\ ~pte[p].live /\ pte'[p].live
             /\ \A q \in PTEIds \ {p} : pte'[q] = pte[q]
             /\ pte'[p].ref_count = 1 /\ pte'[p].valid
             /\ pte'[p].dirty = A.regions[r].writeable
             /\ pte'[p].fn \in Frames
             /\ ~mem[pte'[p].fn].used
             /\ mem'[pte'[p].fn] = [used |-> TRUE, data |-> 0]
             /\ \A f \in Frames \ {pte'[p].fn} : mem'[f] = mem[f]
             /\ tlb'[page].present /\ tlb'[page].fn = pte'[p].fn
             /\ \A a \in ASIds, q \in Pages :
                   (a # curas \/ q # page) =>
                      /\ as'[a].live = as[a].live
                      /\ as[a].live => page_table_lookup(as'[a].page_table, q)
                                         = page_table_lookup(as[a].page_table, q)
C15_FirstTouch == [][C15_Step]_vars

\* C15's case: a first-touch fault has just installed a PTE and written the
\* TLB entry of the page.
C15_Witness ==
    /\ last.op = "vm_fault" /\ last.ret = OK /\ last.args[3] = NULL
    /\ curas # NULL
    /\ page_table_lookup(as[curas].page_table, last.args[2]) # NULL
    /\ tlb[last.args[2]].present

\* The fault has to allocate a PTE: a first touch that passes the region
\* checks, or a copy-on-write of a PTE with other references.
NeedsNewPte(type, page, p) ==
    LET A == as[curas]
        r == find_region(A.regions, page)
    IN /\ r # NULL
       /\ IF p = NULL
          THEN /\ ~(type = VM_FAULT_READ /\ ~A.regions[r].readable)
               /\ ~(type = VM_FAULT_WRITE /\ ~A.regions[r].writeable /\ ~A.force_readwrite)
          ELSE type = VM_FAULT_READONLY /\ A.regions[r].writeable /\ pte[p].ref_count >= 2

\* C16: when vm_fault cannot allocate the PTE it needs, it returns ENOMEM,
\* does not panic, and leaves every page table as it was.
C16_Step ==
    (last'.op = "vm_fault" /\ curas # NULL
        /\ NeedsNewPte(last'.args[1], last'.args[2], last'.args[3])
        /\ (FreePTEIds(Heap(pte, mem)) = {} \/ FreeFrames(Heap(pte, mem)) = {}))
    => /\ last'.ret = ENOMEM
       /\ \A a \in ASIds : as'[a].live = as[a].live
                           /\ (as[a].live => as'[a].page_table = as[a].page_table)
C16_FaultOutOfMemory == [][C16_Step]_vars

\* The PTEs page_table_copy has to copy rather than share.
CopiesNeeded(a) ==
    Cardinality({page \in Pages :
        LET p == page_table_lookup(as[a].page_table, page) IN
        p # NULL /\ build = "page_table" /\ ~pte[p].shared})

\* C17: when an allocation fails inside as_copy, as_copy returns ENOMEM
\* without a panic, no child is left, and the parent's regions, page-table
\* slots, ref_counts and DIRTY bits are as before the call.
C17_Step ==
    (last'.op = "as_copy" /\ curas # NULL
        /\ (CopiesNeeded(curas) > Cardinality(FreePTEIds(Heap(pte, mem)))
            \/ CopiesNeeded(curas) > Cardinality(FreeFrames(Heap(pte, mem)))))
    => /\ last'.ret = ENOMEM
       /\ as' = as
       /\ \A p \in PTEIds : pte'[p].ref_count = pte[p].ref_count
                            /\ pte'[p].dirty = pte[p].dirty
C17_CopyOutOfMemory == [][C17_Step]_vars

\* The break the claims expect: the old break plus the amount, modulo 2^32,
\* rounded up to a page for a positive amount and down for a negative one.
RoundedBreak(old, amount) ==
    IF amount > 0 THEN (old - ((-amount) \div PAGE_SIZE)) % AddressPages
    ELSE (old + (amount \div PAGE_SIZE)) % AddressPages

\* The running process has a heap and a stack (as_define_stack has run).
HasHeap == curas # NULL /\ as[curas].heap # NULL /\ as[curas].stack # NULL

\* C18: a successful sys_sbrk(delta), delta # 0, returns the heap's previous
\* vtop and leaves vtop at old + delta rounded up to a page (delta > 0) or
\* down (delta < 0), with npages = vtop - vbase in pages; sbrk(5000) from
\* break V leaves the break two pages above V.
C18_Step ==
    (last'.op = "sys_sbrk" /\ last'.ret = OK /\ last'.args[1] # 0 /\ HasHeap)
    => LET h == as[curas].heap
           old == as[curas].regions[h].vtop
           H == as'[curas].regions[h]
       IN /\ last'.args[2] = old
          /\ H.vtop = RoundedBreak(old, last'.args[1])
          /\ H.npages = H.vtop - H.vbase
          /\ H.vbase = as[curas].regions[h].vbase
          /\ last'.args[1] = 5000 => H.vtop = old + 2
C19_Step ==
    (last'.op = "sys_sbrk" /\ last'.args[1] = 0 /\ HasHeap)
    => /\ last'.ret = OK
       /\ last'.args[2] = as[curas].regions[as[curas].heap].vtop
       /\ UNCHANGED <<as, pte, mem, tlb, curas>>
C20_Step ==
    /\ (last'.op = "sys_sbrk" /\ last'.args[1] # 0 /\ HasHeap)
       => LET A == as[curas]
              new == RoundedBreak(A.regions[A.heap].vtop, last'.args[1])
          IN (new < A.regions[A.heap].vbase \/ new >= A.regions[A.stack].vbase)
             => last'.ret = ENOMEM /\ as' = as
    /\ \A a \in ASIds : (as'[a].live /\ as'[a].heap # NULL) =>
          LET H == as'[a].regions[as'[a].heap] IN
          /\ H.vbase <= H.vtop
          /\ \A i \in 1..Len(as'[a].regions) :
                (i # as'[a].heap /\ as'[a].regions[i].vbase >= H.vbase
                   /\ as'[a].regions[i].vtop > H.vbase)
                => H.vtop < as'[a].regions[i].vbase
C21_Step ==
    /\ \A a \in ASIds : (as[a].live /\ as[a].heap # NULL) =>
          as[a].regions[as[a].heap].npages
             = as[a].regions[as[a].heap].vtop - as[a].regions[as[a].heap].vbase
    /\ (/\ last.op = "sys_sbrk" /\ last.ret = OK /\ last.args[1] > 0
        /\ last'.op = "sys_sbrk" /\ last'.ret = OK
        /\ last'.args[1] = -last.args[1]
        /\ HasHeap)
       => LET H == as'[curas].regions[as'[curas].heap] IN
          /\ H.vtop = last.args[2]
          /\ H.npages = last.args[2] - H.vbase
C22_Step ==
    (last'.op = "sys_sbrk" /\ last'.ret = OK /\ last'.args[1] < 0 /\ HasHeap)
    => LET old_vtop == as[curas].regions[as[curas].heap].vtop
           new_vtop == as'[curas].regions[as[curas].heap].vtop
       IN \A page \in Pages : (new_vtop <= page /\ page < old_vtop) =>
             LET p == page_table_lookup(as[curas].page_table, page) IN
             /\ page_table_lookup(as'[curas].page_table, page) = NULL
             /\ (p # NULL /\ pte[p].ref_count = 1) => ~mem'[pte[p].fn].used
C22_ShrinkReleasesPages == [][C22_Step]_vars

\* C23: sys_mmap with length 0, or with an offset that is not a multiple of
\* the page size, fails with EINVAL and leaves the regions unchanged.
C23_Step ==
    (last'.op = "sys_mmap"
        /\ (last'.args[1] = 0 \/ last'.args[2] % PAGE_SIZE # 0))
    => last'.ret = EINVAL /\ as' = as
C23_MmapInvalidArg == [][C23_Step]_vars

\* C24: as_define_stack returns USERSTACK as the stack pointer, adds a
\* readable and writable STACK region of YANG_VM_STACKPAGES pages whose vtop
\* is USERSTACK and a readable and writable HEAP region of one page whose
\* vbase is the largest vtop of the regions there were, and records the two
\* as the heap and the stack of the address space.
C24_Step ==
    (last'.op = "as_define_stack" /\ last'.ret = OK)
    => LET a == last'.args[1]
           old == as[a].regions
           new == as'[a].regions
           h == as'[a].heap
           s == as'[a].stack
       IN /\ last'.args[2] = USERSTACK_PAGE
          /\ Len(new) = Len(old) + 2
          /\ \A i \in 1..Len(old) : new[i] = old[i]
          /\ h \in (Len(old) + 1)..Len(new) /\ s \in (Len(old) + 1)..Len(new)
          /\ h # s
          /\ new[s].type = STACK_REGION
          /\ new[s].readable /\ new[s].writeable
          /\ new[s].npages = YANG_VM_STACKPAGES
          /\ new[s].vtop = USERSTACK_PAGE
          /\ new[s].vbase = USERSTACK_PAGE - YANG_VM_STACKPAGES
          /\ new[h].type = HEAP_REGION
          /\ new[h].readable /\ new[h].writeable
          /\ new[h].npages = 1
          /\ new[h].vtop = new[h].vbase + 1
          /\ \A i \in 1..Len(old) : old[i].vtop <= new[h].vbase
          /\ \E i \in 1..Len(old) : old[i].vtop = new[h].vbase
C24_DefineStack == [][C24_Step]_vars

\* C25: after a successful as_define_region(as, vaddr, size, R, W, X) with
\* size > 0, find_region returns for every address of [vaddr, vaddr + size)
\* a region whose vbase is vaddr rounded down to a page, whose vtop is
\* vaddr + size rounded up to a page, and whose flags are R, W and X.
C25_Step ==
    (last'.op = "as_define_region" /\ last'.ret = OK /\ last'.args[5] > 0)
    => LET regions == as'[last'.args[1]].regions
           vaddr == last'.args[4]
           size == last'.args[5]
       IN \A page \in PageOf(vaddr)..PageOf(vaddr + size - 1) :
             LET r == find_region(regions, page) IN
             /\ r # NULL
             /\ regions[r].vbase = vaddr \div PAGE_SIZE
             /\ regions[r].vtop = (vaddr + size + PAGE_SIZE - 1) \div PAGE_SIZE
             /\ regions[r].readable = (last'.args[6] # 0)
             /\ regions[r].writeable = (last'.args[7] # 0)
             /\ regions[r].executable = (last'.args[8] # 0)
C25_DefineThenFind == [][C25_Step]_vars

\* C26: a new_pte that succeeds returns a PTE with ref_count 1, shared
\* false, a zero-filled frame, and a frame word with VALID set and DIRTY
\* clear; with no frame left it returns no PTE.
C26_NewPte ==
    \A garbage \in Garbage :
       LET K == Heap(pte, mem)
           R == new_pte(K, garbage)
       IN /\ R.p # NULL =>
               /\ ~K.pte[R.p].live
               /\ R.k.pte[R.p].ref_count = 1
               /\ ~R.k.pte[R.p].shared
               /\ R.k.pte[R.p].fn \in FreeFrames(K)
               /\ R.k.mem[R.k.pte[R.p].fn] = [used |-> TRUE, data |-> 0]
               /\ R.k.pte[R.p].valid /\ ~R.k.pte[R.p].dirty
          /\ FreeFrames(K) = {} => R.p = NULL

\* The kernel scheduling threads and processes: processes with an address
\* space, a thread without one, and a process leaving its address space.
NextTlb ==
    \/ as_create
    \/ \E a \in ASIds, d \in DefRegions :
          as_define_region(a, d[1], d[2], d[3], d[4], d[5], UNNAMED_REGION)
    \/ \E a \in ASIds \cup {NULL} : as_activate(a)
    \/ as_deactivate
    \/ \E type \in {VM_FAULT_READ, VM_FAULT_WRITE, VM_FAULT_READONLY},
          faultaddress \in FaultAddrs, garbage \in Garbage, victim \in Pages :
          vm_fault(type, faultaddress, garbage, victim)

SpecTlb == Init /\ [][NextTlb]_vars

\* C27: as_deactivate, and as_activate when the current process has an
\* address space, leave every TLB slot invalid; as_activate for a process
\* with no address space leaves the TLB as it was.
C27_Step ==
    /\ last'.op = "as_deactivate" => \A q \in Pages : ~tlb'[q].present
    /\ (last'.op = "as_activate" /\ curas' # NULL) => \A q \in Pages : ~tlb'[q].present
    /\ (last'.op = "as_activate" /\ curas' = NULL) => tlb' = tlb
C27_ActivateFlushes == [][C27_Step]_vars

\* C27's case: a process whose address space has a page installed has just
\* been activated, and no TLB slot is valid.
C27_Witness ==
    /\ last.op = "as_activate" /\ curas # NULL
    /\ \A q \in Pages : ~tlb[q].present
    /\ \E q \in Pages : page_table_lookup(as[curas].page_table, q) # NULL

\* Calls of page_table_add_entry and page_table_remove_entry on the page
\* table of an address space, in any order and on any slot.
NextPageTable ==
    \/ as_create
    \/ \E a \in ASIds, page \in Pages, garbage \in Garbage : add_entry(a, page, garbage)
    \/ \E a \in ASIds, page \in Pages : remove_entry(a, page)

SpecPageTable == Init /\ [][NextPageTable]_vars

\* The entries of a second-level table that hold a PTE.
LiveEntries(t) == {l2 \in L2Slots : t.entries[l2] # NULL}

\* C28: after any sequence of page_table_add_entry and
\* page_table_remove_entry calls (remove on an empty slot and add on an
\* occupied one included) the count of each second-level table (where the
\* structure has one) is the number of its non-null entries, a table is
\* freed and its first-level slot cleared exactly when its last entry is
\* removed, and no table holding a live entry is freed.
C28_Step ==
    \A a \in ASIds, l1 \in L1Slots : (as[a].live /\ as'[a].live) =>
       LET t == as[a].page_table[l1]
           u == as'[a].page_table[l1]
       IN /\ (u.present /\ build = "page_table")
                => u.count = Cardinality(LiveEntries(u))
          /\ (/\ last'.op = "page_table_remove_entry" /\ last'.args[1] = a
              /\ L1_INDEX(last'.args[2]) = l1 /\ t.present)
             => (~u.present <=> LiveEntries(t) = {L2_INDEX(last'.args[2])})
          /\ (t.present /\ ~u.present)
             => /\ last'.op = "page_table_remove_entry"
                /\ LiveEntries(t) \subseteq {L2_INDEX(last'.args[2])}
C28_TableCount == [][C28_Step]_vars

\* ------------------------------------------------------- concurrent calls
\* The faults a program takes before it forks: a write to its data page, a
\* read of its text page.
FirstTouches == {<<VM_FAULT_WRITE, BasePage * PAGE_SIZE + 8>>,
                 <<VM_FAULT_READ, (BasePage + 1) * PAGE_SIZE + 8>>}

\* Processes are set up one call at a time while no thread is inside the VM
\* system (create, define, activate, first touch, fork); then each thread
\* makes one call, the threads' steps interleaved.
NextConc ==
    \/ AllIdle /\ as_create
    \/ AllIdle /\ \E a \in ASIds, d \in DefRegions :
          as_define_region(a, d[1], d[2], d[3], d[4], d[5], UNNAMED_REGION)
    \/ AllIdle /\ \E a \in ASIds : as_activate(a)
    \/ AllIdle /\ \E f \in FirstTouches, garbage \in Garbage :
          vm_fault(f[1], f[2], garbage, BasePage)
    \/ AllIdle /\ \E a \in ASIds, garbage \in Garbage :
          as_copy(a, garbage, [i \in 1..MaxList |-> UNNAMED_REGION])
    \/ \E t \in Threads, a \in ASIds, page \in Pages : fault_enter(t, a, page)
    \/ \E t \in Threads, a \in ASIds : destroy_enter(t, a)
    \/ \E t \in Threads, a \in ASIds :
          copy_enter(t, a, [i \in 1..MaxList |-> UNNAMED_REGION])
    \/ \E t \in Threads : lock_acquire(t)
    \/ \E t \in Threads : fault_lookup(t)
    \/ \E t \in Threads, garbage \in Garbage : fault_cow(t, garbage)
    \/ \E t \in Threads : fault_add(t, BasePage)
    \/ \E t \in Threads : dec_ref(t)
    \/ \E t \in Threads : destroy_pte_enter(t)
    \/ \E t \in Threads : destroy_pte(t)
    \/ \E t \in Threads : destroy_loop(t)
    \/ \E t \in Threads : destroy_l2ent(t)
    \/ \E t \in Threads : destroy_next(t)
    \/ \E t \in Threads : copy_loop(t)
    \/ \E t \in Threads : copy_inc(t)
    \/ \E t \in Threads, garbage \in Garbage : copy_pcopy(t, garbage)
    \/ \E t \in Threads : copy_fail_loop(t)
    \/ \E t \in Threads : copy_fail_next(t)
    \/ \E t \in Threads : copy_fail_end(t)

SpecConc == Init /\ [][NextConc]_vars

\* Thread t sleeps in lock_acquire on a lock thread u holds.
WaitsFor(t, u) == thr[t].pc = "acquire" /\ thr[t].want \in thr[u].held
\* Threads that wait on each other's locks in a cycle.
Deadlocked == \E S \in SUBSET Threads :
                 S # {} /\ \A t \in S : \E u \in S : WaitsFor(t, u)

\* C29: in every interleaving of vm_fault, as_copy and as_destroy threads
\* on address spaces that share PTEs, a thread that goes to take a
\* page-table lock holds no PTE lock, and no threads wait on each other's
\* locks in a cycle.
C29_LockOrder ==
    /\ \A t \in Threads :
          thr[t].pc = "acquire" /\ thr[t].want[1] = "pt"
             => \A h \in thr[t].held : h[1] # "pte"
    /\ ~Deadlocked

\* A thread inside page_table_copy or page_table_destroy holds the lock of
\* its page table and the lock of a PTE two address spaces reference, while
\* another thread sleeps on that PTE lock.
C29_Witness ==
    \E t \in Threads, u \in Threads, p \in PTEIds :
       /\ t # u
       /\ WaitsFor(t, u)
       /\ thr[t].want = PteLock(p)
       /\ PtLock(thr[u].a) \in thr[u].held
       /\ pte[p].live /\ pte[p].ref_count >= 2

\* Threads t and u are inside, or back from, the calls of two address
\* spaces that shared a PTE: t took a READONLY fault on a writable page
\* whose PTE had ref_count 2 and was referenced by two slots, with room for
\* the copy; u took a READONLY fault on the same PTE, or destroyed the
\* other address space, which referenced it.
Sharing(t, u) ==
    /\ t # u
    /\ thr[t].op = "vm_fault" /\ thr[t].rc0 = 2 /\ thr[t].refs0 = 2 /\ thr[t].room
    /\ as[thr[t].a].live
    /\ find_region(as[thr[t].a].regions, thr[t].page) # NULL
    /\ as[thr[t].a].regions[find_region(as[thr[t].a].regions, thr[t].page)].writeable
    /\ thr[u].a # thr[t].a
    /\ \/ thr[u].op = "vm_fault" /\ thr[u].p0 = thr[t].p0 /\ thr[u].page = thr[t].page
       \/ thr[u].op = "as_destroy" /\ thr[t].p0 \in thr[u].own
Shared == \E t \in Threads, u \in Threads : Sharing(t, u)
\* The address spaces of the two threads that are not being destroyed.
Surviving == {a \in ASIds : \E t \in Threads : thr[t].op = "vm_fault" /\ thr[t].a = a}
\* The slot of thread t's page holds a sole-owned writable PTE whose frame
\* has the contents orig.
SoleWritable(t, orig) ==
    LET q == page_table_lookup(as[thr[t].a].page_table, thr[t].page) IN
    /\ q # NULL
    /\ pte[q].live /\ pte[q].ref_count = 1 /\ pte[q].dirty
    /\ pte[q].fn \in Frames /\ mem[pte[q].fn].used
    /\ mem[pte[q].fn].data = orig
\* No two surviving spaces reference one PTE that is writable.
NoSharedWritable ==
    \A a \in Surviving, b \in Surviving, pg \in Pages :
       LET q == page_table_lookup(as[a].page_table, pg) IN
       a # b /\ q # NULL /\ page_table_lookup(as[b].page_table, pg) = q => ~pte[q].dirty
\* Every slot of a surviving space references a PTE and a frame that are
\* not freed.
NoDangling ==
    \A a \in Surviving, pg \in Pages :
       LET q == page_table_lookup(as[a].page_table, pg) IN
       q # NULL => pte[q].live /\ pte[q].fn \in Frames /\ mem[pte[q].fn].used
\* Every allocated frame is the frame of a PTE some slot references.
NoLeak ==
    \A f \in Frames :
       mem[f].used => \E p \in PTEIds : pte[p].live /\ pte[p].fn = f /\ Slots(p) # {}
BothDone == \A t \in Threads : thr[t].pc = "done"

\* C30: when two address spaces that share a PTE with ref_count 2 run at
\* once (both take a READONLY fault, or one takes it while the other is
\* destroyed), in every interleaving each surviving space ends with a
\* sole-owned writable PTE (ref_count 1, DIRTY) in its slot that holds the
\* original page contents, the two never reference one PTE as writable, no
\* PTE or frame is freed while a slot references it, and no frame is left
\* allocated without a slot that references it.
C30_CopyOnWriteRace ==
    Shared =>
       /\ NoSharedWritable
       /\ NoDangling
       /\ BothDone =>
            /\ NoLeak
            /\ \A t \in Threads, u \in Threads :
                  Sharing(t, u) =>
                     /\ SoleWritable(t, thr[t].orig)
                     /\ thr[u].op = "vm_fault" => SoleWritable(u, thr[t].orig)

\* ------------------------------------------------------- a retried store
\* A store instruction of the running process to a page of a writable
\* region.  The MIPS restarts the instruction after every fault vm_fault
\* returns 0 from, so the process retries until the TLB lets the store
\* through; nothing else runs in between.
store_enter(t, page) ==
    /\ ~panicked
    /\ AllIdle /\ NextIn(t)
    /\ curas # NULL
    /\ find_region(as[curas].regions, page) # NULL
    /\ as[curas].regions[find_region(as[curas].regions, page)].writeable
    /\ thr' = [thr EXCEPT ![t] = [IdleThread EXCEPT !.op = "store", !.pc = "store",
                                                    !.a = curas, !.page = page]]
    /\ UNCHANGED <<page_tables, build, as, pte, mem, tlb, curas, panicked, last>>

\* The fault the store raises: vm_fault with the type the TLB decides.
store_fault(t, garbage, victim) ==
    /\ thr[t].pc = "store"
    /\ \E type \in {VM_FAULT_WRITE, VM_FAULT_READONLY} :
          vm_fault(type, thr[t].page * PAGE_SIZE + 8, garbage, victim)

\* The store goes through a valid TLB entry with DIRTY set.
store_done(t, v) ==
    /\ ~panicked
    /\ thr[t].pc = "store"
    /\ tlb[thr[t].page].present /\ tlb[thr[t].page].dirty
    /\ mem' = IF tlb[thr[t].page].fn \in Frames
              THEN [mem EXCEPT ![tlb[thr[t].page].fn].data = v] ELSE mem
    /\ thr' = [thr EXCEPT ![t] = Done(@, OK)]
    /\ UNCHANGED <<page_tables, build, as, pte, tlb, curas, panicked, last>>

\* Processes are set up and run one call at a time; then one of them
\* executes a store and retries it.
NextStore ==
    \/ AllIdle /\ as_create
    \/ AllIdle /\ \E a \in ASIds, d \in DefRegions :
          as_define_region(a, d[1], d[2], d[3], d[4], d[5], UNNAMED_REGION)
    \/ AllIdle /\ \E a \in ASIds : as_activate(a)
    \/ AllIdle /\ \E type \in {VM_FAULT_READ, VM_FAULT_WRITE, VM_FAULT_READONLY},
          faultaddress \in FaultAddrs, garbage \in Garbage, victim \in Pages :
          vm_fault(type, faultaddress, garbage, victim)
    \/ AllIdle /\ \E a \in ASIds, garbage \in Garbage :
          as_copy(a, garbage, [i \in 1..MaxList |-> UNNAMED_REGION])
    \/ AllIdle /\ \E a \in ASIds : as_destroy(a)
    \/ \E t \in Threads, page \in Pages : store_enter(t, page)
    \/ \E t \in Threads, garbage \in Garbage, victim \in Pages : store_fault(t, garbage, victim)
    \/ \E t \in Threads, v \in 1..MaxVal : store_done(t, v)

\* The processor goes on executing the process: a store that can fault
\* does, one that can go through does.
StoreFairness ==
    /\ WF_vars(\E t \in Threads, garbage \in Garbage, victim \in Pages :
                  store_fault(t, garbage, victim))
    /\ WF_vars(\E t \in Threads, v \in 1..MaxVal : store_done(t, v))

SpecStore == Init /\ [][NextStore]_vars /\ StoreFairness

\* Thread t's process is at a store it has not got through yet.
Storing(t) == thr[t].pc = "store"
\* The TLB lets a store to the page of t's store through.
WritableEntry(t) == tlb[thr[t].page].present /\ tlb[thr[t].page].dirty
\* The process of t's store holds a valid writable TLB entry for the page,
\* backed by the PTE of its page-table slot, which has no other owner.
HoldsWritable(t) ==
    LET q == page_table_lookup(as[thr[t].a].page_table, thr[t].page) IN
    /\ thr[t].op = "store"
    /\ WritableEntry(t)
    /\ q # NULL
    /\ pte[q].live /\ pte[q].ref_count = 1
    /\ tlb[thr[t].page].fn = pte[q].fn
\* alloc_kpages and kmalloc have a frame and a PTE block to give.
Room == FreePTEIds(Heap(pte, mem)) # {} /\ FreeFrames(Heap(pte, mem)) # {}

\* A fault of the retried store, allocation not failing: vm_fault returns
\* 0; a first touch and a READONLY fault leave the writable entry, a TLB
\* miss on a page that has a PTE leaves an entry.
C31_Step ==
    \A t \in Threads :
       (Storing(t) /\ Room /\ ~WritableEntry(t))
       => /\ ~panicked'
          /\ last'.op = "vm_fault" /\ last'.ret = OK
          /\ IF tlb[thr[t].page].present
                \/ page_table_lookup(as[thr[t].a].page_table, thr[t].page) = NULL
             THEN HoldsWritable(t)'
             ELSE tlb'[thr[t].page].present

\* C31: with allocation not failing, a process that retries a store to a
\* page of a writable region comes to hold a valid writable TLB entry for
\* it, backed by a sole-owned PTE, within one fault when the page has no
\* PTE and within a TLB-miss fault and one READONLY fault otherwise; a
\* READONLY fault on a writable region never leaves a read-only entry.
C31_RetriedStore ==
    /\ [][C31_Step]_vars
    /\ \A t \in Threads : (Storing(t) /\ Room /\ ~WritableEntry(t)) ~> HoldsWritable(t)

\* The TLB entries through which the running process can write to a page
\* of a region that is not writable.
WritableReadonly(t, A) ==
    {page \in Pages :
       /\ t[page].present /\ t[page].dirty
       /\ find_region(A.regions, page) # NULL
       /\ ~A.regions[find_region(A.regions, page)].writeable}

C32_Step ==
    (last'.op = "as_complete_load" /\ last'.ret = OK /\ last'.args[1] = curas)
    => WritableReadonly(tlb', as'[curas]) = {}

\* C32: when as_complete_load has returned, the running process holds no
\* writable TLB entry for a page of a region that is not writable: what was
\* installed writable under force_readwrite is not usable once the flag is
\* cleared.
C32_CompleteLoad == [][C32_Step]_vars

\* No kernel thread is inside a call and the kernel runs.
Quiescent == AllIdle /\ ~panicked
\* The PTE structures and PTE locks on the kernel heap that no slot of a
\* live address space references.
LeakedPTEs == {p \in PTEIds : (pte[p].live \/ pte[p].lock) /\ Slots(p) = {}}
\* The struct PageTable blocks (and their locks) on the kernel heap beyond
\* the one each live address space points to.
LeakedPageTables == page_tables - Cardinality(LiveAS)

\* C33: whenever no operation is in progress, every allocated frame, PTE,
\* PTE lock, L2 table and page table is reachable from a live address
\* space (an L2 table is part of its page table here): none is left over
\* by a successful as_copy, by a failed allocation or by the as_destroy of
\* every address space that was created.
C33_NothingLeaked ==
    Quiescent => LeakedPTEs = {} /\ NoLeak /\ LeakedPageTables = 0

====
